---- MODULE Spec2Model ----
(***************************************************************************)
(* Matching engine of brand-scraper: scorer, ranker and curator.           *)
(*                                                                         *)
(* Scores are Python floats in the source.  Here a score is an exact       *)
(* fixed-point integer: one point is Unit units, so that half a weight and *)
(* a product with two percentage multipliers are all exact.                *)
(***************************************************************************)
EXTENDS Integers, Sequences, FiniteSets, TLC

VARIABLES
    user,        \* scorer input: the user profile
    product,     \* scorer input: the product
    config,      \* the MatchingConfig in use
    rejected,    \* scorer input: rejected_product_ids
    result,      \* <<>> before the call, <<ScoreResult>> after score_product
    pool,        \* curator input: the ranked pool _build_pool returned
    max_products,\* curator input: the max_products argument (0 for None)
    zine,        \* <<>> before the call, <<the curation's outcome>> after it
    users,       \* the users table: stored user id -> profile
    catalog,     \* the products table, in the order a query returns its rows
    interactions,\* the user_interactions table: the append-only event log
    response,    \* <<>> or <<the outcome of the last ranker or curator call>>
    deliveries,  \* the zine_deliveries table as the job's session sees it
    committed,   \* the zine_deliveries table as committed
    job          \* run_delivery_job: its position, the due users left, the products

scorerVars == <<user, product, rejected, result>>
curatorVars == <<pool, max_products, zine>>
dbVars == <<users, catalog, interactions, response>>
jobVars == <<deliveries, committed, job>>
vars == <<user, product, config, rejected, result, pool, max_products, zine,
          users, catalog, interactions, response, deliveries, committed, job>>

\* The delivery job while it is not running.
IdleJob == [pc |-> "idle", due |-> <<>>, products |-> <<>>, first |-> 1]

\* ------------------------------------------------------------------------
\* Values
\* ------------------------------------------------------------------------

\* Python's None, for the optional string attributes.
None == "None"

\* One score point in fixed-point units (2 for the halves, 100 per multiplier).
Unit == 2 * 100 * 100

Pts(n) == n * Unit

\* Truth value of an optional string: None and "" are falsy.
Truthy(s) == s \notin {None, ""}

Max(a, b) == IF a >= b THEN a ELSE b
Min(a, b) == IF a <= b THEN a ELSE b

\* Python's round(x, 1) on a non-negative score: nearest tenth, ties to even.
Round1(x) ==
    LET tenth == Unit \div 10
        q == x \div tenth
        r == x % tenth
    IN  IF 2 * r < tenth THEN q * tenth
        ELSE IF 2 * r > tenth THEN (q + 1) * tenth
        ELSE IF q % 2 = 0 THEN q * tenth ELSE (q + 1) * tenth

\* The elements of a list.
Range(s) == {s[i] : i \in DOMAIN s}

\* dict.get(key, default) on a dict modelled as a function over its keys.
Get(d, key, default) == IF key \in DOMAIN d THEN d[key] ELSE default

\* Lexicographic order on pairs of integers.
PairLess(a, b) == a[1] < b[1] \/ (a[1] = b[1] /\ a[2] < b[2])

\* list.sort(key=...): the stable ascending sort of seq by keys, keys[i]
\* being the (pair) key of seq[i].  Equal keys keep their order.
StableSort(seq, keys) ==
    LET n == Len(seq)
        rank(i) == Cardinality({j \in 1..n :
                        PairLess(keys[j], keys[i]) \/ (keys[j] = keys[i] /\ j < i)}) + 1
    IN  [k \in 1..n |-> seq[CHOOSE i \in 1..n : rank(i) = k]]

\* A Python slice index clamped into 0..n (negative counts from the end).
SliceIndex(i, n) == IF i < 0 THEN Max(0, n + i) ELSE Min(i, n)

\* seq[start:stop]
Slice(seq, start, stop) ==
    LET lo == SliceIndex(start, Len(seq))
        hi == SliceIndex(stop, Len(seq))
    IN  IF hi <= lo THEN <<>> ELSE [k \in 1..(hi - lo) |-> seq[lo + k]]

\* int(n * fraction), fraction in hundredths: truncation toward zero.
IntOfFraction(n, fraction) ==
    IF n * fraction >= 0 THEN (n * fraction) \div 100 ELSE -((-(n * fraction)) \div 100)

\* ------------------------------------------------------------------------
\* matching/config.py
\* ------------------------------------------------------------------------

PALETTE_COMPATIBILITY ==
    [p \in {"neutral", "monochrome", "earth-tones", "muted", "warm-tones",
            "pastels", "brights", "jewel-tones", "neon", "black-and-white"} |->
        CASE p = "neutral" -> {"earth-tones", "monochrome", "muted", "black-and-white"}
          [] p = "monochrome" -> {"neutral", "black-and-white"}
          [] p = "earth-tones" -> {"neutral", "warm-tones", "muted"}
          [] p = "muted" -> {"neutral", "earth-tones", "pastels"}
          [] p = "warm-tones" -> {"earth-tones", "muted"}
          [] p = "pastels" -> {"muted"}
          [] p = "brights" -> {"jewel-tones", "neon"}
          [] p = "jewel-tones" -> {"brights", "warm-tones"}
          [] p = "neon" -> {"brights"}
          [] p = "black-and-white" -> {"neutral", "monochrome"}]

VIBE_COMPATIBILITY ==
    [v \in {"understated", "bold", "casual", "sophisticated", "polished", "edgy",
            "relaxed", "dressy", "playful", "cozy", "artistic", "sporty",
            "glamorous", "earthy", "youthful"} |->
        CASE v = "understated" -> {"casual", "relaxed", "polished", "sophisticated"}
          [] v = "bold" -> {"edgy", "glamorous", "dressy", "artistic"}
          [] v = "casual" -> {"relaxed", "understated", "sporty", "youthful"}
          [] v = "sophisticated" -> {"polished", "dressy", "understated"}
          [] v = "polished" -> {"sophisticated", "dressy", "understated"}
          [] v = "edgy" -> {"bold", "artistic", "youthful"}
          [] v = "relaxed" -> {"casual", "understated", "cozy", "earthy"}
          [] v = "dressy" -> {"sophisticated", "polished", "glamorous"}
          [] v = "playful" -> {"youthful", "bold", "artistic"}
          [] v = "cozy" -> {"relaxed", "casual", "earthy"}
          [] v = "artistic" -> {"edgy", "bold", "playful"}
          [] v = "sporty" -> {"casual", "youthful"}
          [] v = "glamorous" -> {"dressy", "bold", "sophisticated"}
          [] v = "earthy" -> {"relaxed", "cozy"}
          [] v = "youthful" -> {"playful", "casual", "sporty"}]

\* PALETTE_COMPATIBILITY.get(p, set()) and VIBE_COMPATIBILITY.get(v, set())
PaletteCompatible(p) ==
    IF p \in DOMAIN PALETTE_COMPATIBILITY THEN PALETTE_COMPATIBILITY[p] ELSE {}
VibeCompatible(v) ==
    IF v \in DOMAIN VIBE_COMPATIBILITY THEN VIBE_COMPATIBILITY[v] ELSE {}

\* MatchingWeights: points per dimension, multipliers in hundredths (1.15 = 115).
MatchingWeights(a, p, v) ==
    [aesthetic |-> a, palette |-> p, vibe |-> v, brand_affinity |-> 115, newness |-> 105]

\* FilterThresholds defaults, in points.
FilterThresholds == [min_score |-> 20, good_match |-> 60, excellent_match |-> 80]

\* CurationRules defaults; the fractions are in hundredths (0.4 = 40).
CurationRules ==
    [max_products |-> 12, min_products |-> 3, max_category_fraction |-> 40,
     max_brand_fraction |-> 50, oversample_factor |-> 4]

\* MatchingConfig()
DEFAULT_CONFIG ==
    [weights |-> MatchingWeights(40, 30, 30), filters |-> FilterThresholds,
     curation |-> CurationRules, require_ai_tags |-> TRUE,
     penalize_rejected |-> TRUE, rejection_penalty |-> 30]

\* MatchingWeights.validate: the three weights sum to 100.
WeightsValid(w) == w.aesthetic + w.palette + w.vibe = 100

\* get_recommendations with the min_score query parameter: a fresh
\* MatchingConfig() whose filters.min_score is then assigned; neither the
\* construction nor the assignment calls validate().
WithMinScore(min_score) == [DEFAULT_CONFIG EXCEPT !.filters.min_score = min_score]

\* ------------------------------------------------------------------------
\* matching/scorer.py
\* ------------------------------------------------------------------------

\* ScoreResult(aesthetic_max=..., palette_max=..., vibe_max=...)
ScoreResult(cfg) ==
    [total |-> 0, base |-> 0,
     aesthetic_points |-> 0, aesthetic_max |-> Pts(cfg.weights.aesthetic),
     palette_points |-> 0, palette_max |-> Pts(cfg.weights.palette),
     vibe_points |-> 0, vibe_max |-> Pts(cfg.weights.vibe),
     bonuses |-> <<>>, penalties |-> <<>>,
     matched_aesthetic |-> None, matched_palette |-> None, matched_vibe |-> None,
     partial_palette |-> FALSE, partial_vibe |-> FALSE,
     quality |-> "poor", missing_data |-> FALSE]


\* TagsMissing that tests for None only: an empty dict counts as classified.
TagsMissing_NoneOnly(p) == p.ai_tags = <<>>

\* product.ai_tags is <<>> for None and <<dict>> otherwise; `not ai_tags` holds
\* for None and for the empty dict.
TagsMissing(p) == p.ai_tags = <<>> \/ DOMAIN p.ai_tags[1] = {}

\* ai_tags after `ai_tags = {}` replaced a missing value.
TagsOf(p) == IF TagsMissing(p) THEN <<>> ELSE p.ai_tags[1]

\* silhouette_to_gender.get(user.silhouette)
RequiredGender(silhouette) ==
    CASE silhouette = "menswear" -> "mens"
      [] silhouette = "womenswear" -> "womens"
      [] OTHER -> None


\* GenderExcluded without the "unisex" alternative.
GenderExcluded_NoUnisex(u, p) ==
    /\ Truthy(u.silhouette) /\ u.silhouette # "all" /\ Truthy(p.gender)
    /\ RequiredGender(u.silhouette) # None
    /\ p.gender # RequiredGender(u.silhouette)

\* The hard gender filter: TRUE when score_product returns the zero result.
GenderExcluded(u, p) ==
    /\ Truthy(u.silhouette) /\ u.silhouette # "all" /\ Truthy(p.gender)
    /\ RequiredGender(u.silhouette) # None
    /\ p.gender \notin {RequiredGender(u.silhouette), "unisex"}


\* AestheticScore that looks at the last aesthetic of the product only.
AestheticScore_LastOnly(u, tags, cfg) ==
    LET product_aesthetics == Get(tags, "aesthetics", <<>>)
    IN  IF Truthy(u.aesthetic) /\ product_aesthetics # <<>>
           /\ u.aesthetic = product_aesthetics[Len(product_aesthetics)]
        THEN [points |-> Pts(cfg.weights.aesthetic), matched |-> u.aesthetic]
        ELSE [points |-> 0, matched |-> None]

\* The aesthetic dimension: [points, matched].
AestheticScore(u, tags, cfg) ==
    LET product_aesthetics == Get(tags, "aesthetics", <<>>)
    IN  IF Truthy(u.aesthetic) /\ product_aesthetics # <<>>
           /\ u.aesthetic \in Range(product_aesthetics)
        THEN [points |-> Pts(cfg.weights.aesthetic), matched |-> u.aesthetic]
        ELSE [points |-> 0, matched |-> None]


\* PaletteScore that awards the full weight for a compatible palette.
PaletteScore_FullOnCompatible(u, tags, cfg) ==
    LET product_palette == Get(tags, "palette", "")
    IN  IF Truthy(u.palette) /\ Truthy(product_palette)
        THEN IF u.palette = product_palette
             THEN [points |-> Pts(cfg.weights.palette), matched |-> product_palette,
                   partial |-> FALSE]
             ELSE IF product_palette \in PaletteCompatible(u.palette)
             THEN [points |-> Pts(cfg.weights.palette),
                   matched |-> product_palette, partial |-> TRUE]
             ELSE [points |-> 0, matched |-> None, partial |-> FALSE]
        ELSE [points |-> 0, matched |-> None, partial |-> FALSE]

\* The palette dimension: [points, matched, partial].
PaletteScore(u, tags, cfg) ==
    LET product_palette == Get(tags, "palette", "")
    IN  IF Truthy(u.palette) /\ Truthy(product_palette)
        THEN IF u.palette = product_palette
             THEN [points |-> Pts(cfg.weights.palette), matched |-> product_palette,
                   partial |-> FALSE]
             ELSE IF product_palette \in PaletteCompatible(u.palette)
             THEN [points |-> Pts(cfg.weights.palette) \div 2,
                   matched |-> product_palette, partial |-> TRUE]
             ELSE [points |-> 0, matched |-> None, partial |-> FALSE]
        ELSE [points |-> 0, matched |-> None, partial |-> FALSE]

\* overlap = compatible & set(product_vibes)
VibeOverlap(u, tags) == VibeCompatible(u.vibe) \cap Range(Get(tags, "vibes", <<>>))

\* The values next(iter(overlap)) can return: the iteration order of a set of
\* strings is not fixed, so any element of the overlap.
VibePicks(u, tags) == IF VibeOverlap(u, tags) = {} THEN {None} ELSE VibeOverlap(u, tags)

\* The vibe dimension: [points, matched, partial]; pick is next(iter(overlap)).
VibeScore(u, tags, cfg, pick) ==
    LET product_vibes == Get(tags, "vibes", <<>>)
    IN  IF Truthy(u.vibe) /\ product_vibes # <<>>
        THEN IF u.vibe \in Range(product_vibes)
             THEN [points |-> Pts(cfg.weights.vibe), matched |-> u.vibe, partial |-> FALSE]
             ELSE IF VibeOverlap(u, tags) # {}
             THEN [points |-> Pts(cfg.weights.vibe) \div 2, matched |-> pick,
                   partial |-> TRUE]
             ELSE [points |-> 0, matched |-> None, partial |-> FALSE]
        ELSE [points |-> 0, matched |-> None, partial |-> FALSE]

\* product.brand.name, or the fallback of the explainer for a product without
\* a brand.
GetBrandName(p) == IF p.brand # None THEN p.brand ELSE "this brand"

\* brand_name in followed, for a product that has a brand.
BrandFollowed(u, p) == p.brand # None /\ p.brand \in u.followed_brands


\* ApplyMultiplier that divides by the multiplier.
ApplyMultiplier_Divide(total, multiplier) == (total * 100) \div multiplier

\* result.total *= multiplier (multiplier in hundredths).
ApplyMultiplier(total, multiplier) == (total * multiplier) \div 100

\* bonus = result.total * (multiplier - 1)
BonusAmount(total, multiplier) == (total * (multiplier - 100)) \div 100

\* The penalty applies: config.penalize_rejected and rejected_product_ids and
\* product.id in rejected_product_ids.
IsPenalized(p, cfg, rejected_product_ids) ==
    cfg.penalize_rejected /\ rejected_product_ids # {} /\ p.id \in rejected_product_ids


\* ApplyPenalty on the capped score: the cap at 100 is taken first.
ApplyPenalty_AfterCap(total, penalty) == Max(0, Min(Pts(100), total) - penalty)

\* result.total = max(0, result.total - penalty)
ApplyPenalty(total, penalty) == Max(0, total - penalty)


\* CapTotal without the cap: the total is returned as it is.
CapTotal_NoCap(total) == total

\* result.total = min(100.0, result.total)
CapTotal(total) == Min(Pts(100), total)

\* The quality label of a total.
QualityLabel(total, cfg) ==
    IF total >= Pts(cfg.filters.excellent_match) THEN "excellent"
    ELSE IF total >= Pts(cfg.filters.good_match) THEN "good"
    ELSE IF total >= Pts(cfg.filters.min_score) THEN "fair"
    ELSE "poor"

\* The total after the two multiplicative bonuses, before penalty and cap.
BonusAdjusted(base, u, p, cfg) ==
    LET t1 == IF BrandFollowed(u, p)
              THEN ApplyMultiplier(base, cfg.weights.brand_affinity) ELSE base
    IN  IF p.is_new THEN ApplyMultiplier(t1, cfg.weights.newness) ELSE t1

\* The bonuses ledger: a dict over the keys of the bonuses that applied.
BonusLedger(base, u, p, cfg) ==
    LET t1 == IF BrandFollowed(u, p)
              THEN ApplyMultiplier(base, cfg.weights.brand_affinity) ELSE base
        keys == (IF BrandFollowed(u, p) THEN {"brand_affinity"} ELSE {})
                \cup (IF p.is_new THEN {"newness"} ELSE {})
    IN  [k \in keys |->
            IF k = "brand_affinity"
            THEN Round1(BonusAmount(base, cfg.weights.brand_affinity))
            ELSE Round1(BonusAmount(t1, cfg.weights.newness))]

\* score_product(user, product, config, rejected_product_ids); pick is the
\* value next(iter(overlap)) yields when the vibe match is partial.
score_product(u, p, cfg, rejected_product_ids, pick) ==
    LET r0 == ScoreResult(cfg)
        tags == TagsOf(p)
        a == AestheticScore(u, tags, cfg)
        pl == PaletteScore(u, tags, cfg)
        v == VibeScore(u, tags, cfg, pick)
        base == a.points + pl.points + v.points
        boosted == BonusAdjusted(base, u, p, cfg)
        penalized == IsPenalized(p, cfg, rejected_product_ids)
        afterPenalty == IF penalized
                        THEN ApplyPenalty(boosted, Pts(cfg.rejection_penalty))
                        ELSE boosted
        total == CapTotal(afterPenalty)
    IN  IF TagsMissing(p) /\ cfg.require_ai_tags
        THEN [r0 EXCEPT !.missing_data = TRUE]
        ELSE IF GenderExcluded(u, p)
        THEN [r0 EXCEPT !.missing_data = TagsMissing(p)]
        ELSE [r0 EXCEPT
                !.missing_data = TagsMissing(p),
                !.aesthetic_points = a.points, !.matched_aesthetic = a.matched,
                !.palette_points = pl.points, !.matched_palette = pl.matched,
                !.partial_palette = pl.partial,
                !.vibe_points = v.points, !.matched_vibe = v.matched,
                !.partial_vibe = v.partial,
                !.base = base,
                !.bonuses = BonusLedger(base, u, p, cfg),
                !.penalties = IF penalized
                              THEN [k \in {"rejected"} |-> Pts(cfg.rejection_penalty)]
                              ELSE <<>>,
                !.total = total,
                !.quality = QualityLabel(total, cfg)]

\* A call whose caller does not read matched_vibe: total, quality and every
\* other field are the same for every pick.
ScoreOf(u, p, cfg, rejected_product_ids) ==
    score_product(u, p, cfg, rejected_product_ids,
                  CHOOSE x \in VibePicks(u, TagsOf(p)) : TRUE)

\* ------------------------------------------------------------------------
\* Scorer inputs
\* ------------------------------------------------------------------------

UserProfiles ==
    [id : {1},
     aesthetic : {None, "minimalist"},
     palette : {None, "neutral"},
     vibe : {None, "understated", "glamorous"},
     silhouette : {"all", "menswear", "womenswear"},
     followed_brands : {{}, {"asket"}}]

TagDicts ==
    [aesthetics : {<<"minimalist", "scandinavian">>, <<"maximalist">>},
     palette : {"neutral", "earth-tones", "jewel-tones"},
     vibes : {<<"understated", "sophisticated">>, <<"earthy", "cozy">>,
              <<"casual", "polished">>},
     category : {"tops"}]

\* ai_tags: None, the empty dict, a dict with a category only, or a full dict.
AiTags == {<<>>, << <<>> >>, << [category |-> "tops"] >>} \cup {<<d>> : d \in TagDicts}

Products ==
    [id : {100}, ai_tags : AiTags, brand : {"asket"}, is_new : BOOLEAN,
     gender : {None, "mens", "womens", "unisex"}]

\* Valid configurations: weights summing to 100, multipliers above 1,
\* increasing thresholds; min_score is the default or lowered to 0, the value
\* with which every scored item qualifies.
ScorerConfigs ==
    {[DEFAULT_CONFIG EXCEPT !.weights = w, !.require_ai_tags = req,
                            !.penalize_rejected = pen] :
        w \in {MatchingWeights(40, 30, 30), MatchingWeights(50, 25, 25)},
        req \in BOOLEAN, pen \in BOOLEAN}
    \cup {[WithMinScore(0) EXCEPT !.require_ai_tags = req] : req \in BOOLEAN}

\* ------------------------------------------------------------------------
\* The scorer as a state machine: inputs, then one call of score_product
\* ------------------------------------------------------------------------

ScoreInit ==
    /\ deliveries = <<>> /\ committed = <<>> /\ job = IdleJob
    /\ user \in UserProfiles
    /\ product \in Products
    /\ config \in ScorerConfigs
    /\ rejected \in {{}, {100}}
    /\ result = <<>>
    /\ pool = <<>> /\ max_products = 0 /\ zine = <<>>
    /\ users = <<>> /\ catalog = <<>> /\ interactions = <<>> /\ response = <<>>

ScoreCall ==
    /\ result = <<>>
    /\ \E pick \in VibePicks(user, TagsOf(product)) :
         result' = <<score_product(user, product, config, rejected, pick)>>
    /\ UNCHANGED <<user, product, config, rejected>>
    /\ UNCHANGED curatorVars
    /\ UNCHANGED jobVars
    /\ UNCHANGED dbVars

ScoreNext == ScoreCall

ScoreSpec == ScoreInit /\ [][ScoreNext]_vars

\* ------------------------------------------------------------------------
\* matching/explainer.py
\* ------------------------------------------------------------------------

\* A list of one entry when the condition holds, else the empty list.
Entry(condition, e) == IF condition THEN <<e>> ELSE <<>>

\* The reason and miss strings, kept as records: the dimension (or "bonus",
\* "penalty", "product"), the kind of sentence, and the value it names.
Line(dimension, kind, value) == [dimension |-> dimension, kind |-> kind, value |-> value]


\* DimensionReason that reports exact matches only.
DimensionReason_ExactOnly(dimension, points, maximum, matched, partial) ==
    Entry(points = maximum /\ Truthy(matched), Line(dimension, "match", matched))

\* The if / elif of one dimension in _build_reasons; for the aesthetic the
\* elif tests points > 0, for palette and vibe the partial flag and the value.
DimensionReason(dimension, points, maximum, matched, partial) ==
    IF points = maximum /\ Truthy(matched)
    THEN <<Line(dimension, "match", matched)>>
    ELSE IF dimension = "aesthetic"
    THEN Entry(points > 0, Line(dimension, "partial", matched))
    ELSE Entry(partial /\ Truthy(matched), Line(dimension, "compatible", matched))

\* _build_reasons(result, user, product, ai_tags)
BuildReasons(r, u, p) ==
    DimensionReason("aesthetic", r.aesthetic_points, r.aesthetic_max,
                    r.matched_aesthetic, FALSE)
    \o DimensionReason("palette", r.palette_points, r.palette_max,
                       r.matched_palette, r.partial_palette)
    \o DimensionReason("vibe", r.vibe_points, r.vibe_max, r.matched_vibe, r.partial_vibe)
    \o Entry("brand_affinity" \in DOMAIN r.bonuses,
             Line("bonus", "brand_affinity", GetBrandName(p)))
    \o Entry("newness" \in DOMAIN r.bonuses, Line("bonus", "newness", None))
    \o Entry("rejected" \in DOMAIN r.penalties, Line("penalty", "rejected", None))

\* One dimension of _build_misses: a miss when the dimension scored 0 and the
\* user declared a preference, naming the product's data or its absence.
DimensionMiss(dimension, points, preference, has_data) ==
    Entry(points = 0 /\ Truthy(preference),
          Line(dimension, IF has_data THEN "mismatch" ELSE "no_data", preference))

\* _build_misses(result, user, ai_tags, config)
BuildMisses(r, u, ai_tags) ==
    DimensionMiss("aesthetic", r.aesthetic_points, u.aesthetic,
                  Get(ai_tags, "aesthetics", <<>>) # <<>>)
    \o DimensionMiss("palette", r.palette_points, u.palette,
                     Truthy(Get(ai_tags, "palette", "")))
    \o DimensionMiss("vibe", r.vibe_points, u.vibe, Get(ai_tags, "vibes", <<>>) # <<>>)
    \o Entry(r.missing_data, Line("product", "untagged", None))

\* explain_match(user, product, config): the pair is scored again, with no
\* rejection set passed to score_product.
explain_match(u, p, cfg, pick) ==
    LET r == score_product(u, p, cfg, {}, pick)
    IN  [op |-> "explain_match", status |-> "ok",
         score |-> Round1(r.total), quality |-> r.quality,
         reasons |-> BuildReasons(r, u, p),
         misses |-> BuildMisses(r, u, TagsOf(p)),
         breakdown |-> r]

\* ------------------------------------------------------------------------
\* The explainer as a state machine: inputs, then one call of explain_match
\* ------------------------------------------------------------------------

Explain ==
    /\ response = <<>>
    /\ \E pick \in VibePicks(user, TagsOf(product)) :
         response' = <<explain_match(user, product, config, pick)>>
    /\ UNCHANGED <<config, users, catalog, interactions>>
    /\ UNCHANGED scorerVars
    /\ UNCHANGED curatorVars
    /\ UNCHANGED jobVars

ExplainNext == Explain

ExplainSpec == ScoreInit /\ [][ExplainNext]_vars

\* ------------------------------------------------------------------------
\* matching/ranker.py
\* ------------------------------------------------------------------------

\* RankedProduct: a product paired with its ScoreResult; rp.score is the total.
RankedProduct(p, score_result) == [product |-> p, score_result |-> score_result]
Score(rp) == rp.score_result.total

\* _SILHOUETTE_GENDERS.get(user.silhouette or "all"): the allowed genders, {}
\* standing for None (no filter).
SilhouetteGenders(silhouette) ==
    CASE silhouette = "menswear" -> {"mens", "unisex"}
      [] silhouette = "womenswear" -> {"womens", "unisex"}
      [] OTHER -> {}

\* LoadRejectedIds that keeps a product only while the user's most recent
\* interaction with it is the swipe_left.
LoadRejectedIds_MostRecent(log, user_id) ==
    {log[i].product_id : i \in {j \in DOMAIN log :
        /\ log[j].user_id = user_id /\ log[j].action = "swipe_left"
        /\ \A k \in DOMAIN log :
              (k > j /\ log[k].user_id = user_id) => log[k].product_id # log[j].product_id}}

\* _load_rejected_ids(session, user_id)
LoadRejectedIds(log, user_id) ==
    {log[i].product_id : i \in {j \in DOMAIN log :
        log[j].user_id = user_id /\ log[j].action = "swipe_left"}}

\* The WHERE clause of the product query without the optional filters.
BaseCandidate(p, u, cfg) ==
    /\ p.is_active
    /\ p.availability = "in_stock"
    /\ cfg.require_ai_tags => p.ai_tags # <<>>
    /\ SilhouetteGenders(u.silhouette) # {} =>
          (p.gender \in SilhouetteGenders(u.silhouette) \/ p.gender = None)

\* The optional category and price filters of get_matched_products.
OptionalFilters(p, filters) ==
    /\ "category" \in DOMAIN filters => p.category = filters["category"]
    /\ "min_price" \in DOMAIN filters => p.price >= filters["min_price"]
    /\ "max_price" \in DOMAIN filters => p.price <= filters["max_price"]

\* The rows of seq that satisfy the predicate given as a set of indices, in order.
RECURSIVE Rows(_, _)
Rows(seq, keep) ==
    IF seq = <<>> THEN <<>>
    ELSE LET front == Rows(Slice(seq, 0, -1), keep)
         IN  IF Len(seq) \in keep THEN Append(front, seq[Len(seq)]) ELSE front

\* q.all() of get_matched_products
QueryProducts(cat, u, cfg, filters) ==
    Rows(cat, {i \in DOMAIN cat :
                  BaseCandidate(cat[i], u, cfg) /\ OptionalFilters(cat[i], filters)})


\* Qualifying that compares with the default min_score, not the configured one.
Qualifying_DefaultThreshold(products, u, cfg, rejected_ids) ==
    LET scored == [i \in DOMAIN products |->
                     RankedProduct(products[i], ScoreOf(u, products[i], cfg, rejected_ids))]
    IN  Rows(scored, {i \in DOMAIN scored :
                        Score(scored[i]) >= Pts(DEFAULT_CONFIG.filters.min_score)})

\* The scoring loop: the candidates whose total reaches min_score, in query order.
Qualifying(products, u, cfg, rejected_ids) ==
    LET scored == [i \in DOMAIN products |->
                     RankedProduct(products[i], ScoreOf(u, products[i], cfg, rejected_ids))]
    IN  Rows(scored, {i \in DOMAIN scored : Score(scored[i]) >= Pts(cfg.filters.min_score)})


\* SortByScore with the product id, descending, as a secondary key.
SortByScore_IdDescending(ranked) ==
    StableSort(ranked, [i \in DOMAIN ranked |-> <<-Score(ranked[i]), -ranked[i].product.id>>])

\* ranked.sort(key=lambda rp: rp.score, reverse=True): stable, descending.
SortByScore(ranked) ==
    StableSort(ranked, [i \in DOMAIN ranked |-> <<-Score(ranked[i]), 0>>])

RECURSIVE SumScores(_)
SumScores(ranked) ==
    IF ranked = <<>> THEN 0 ELSE Score(Head(ranked)) + SumScores(Tail(ranked))

\* round(total / n, 1): the mean rounded to a tenth, ties to even.
RoundedMean(total, n) ==
    LET tenth == Unit \div 10
        q == total \div (n * tenth)
        r == total % (n * tenth)
    IN  IF 2 * r < n * tenth THEN q * tenth
        ELSE IF 2 * r > n * tenth THEN (q + 1) * tenth
        ELSE IF q % 2 = 0 THEN q * tenth ELSE (q + 1) * tenth

\* avg_score, as returned: 0.0 for an empty list, else round(sum / len, 1).
AverageScore(ranked) ==
    IF ranked = <<>> THEN 0 ELSE RoundedMean(SumScores(ranked), Len(ranked))


\* Paginate that ignores the offset: the page always starts at the top.
Paginate_FromTop(ranked, offset, limit) == Slice(ranked, 0, limit)

\* page = ranked[offset : offset + limit]
Paginate(ranked, offset, limit) == Slice(ranked, offset, offset + limit)

\* RankedProduct.to_dict(): the scores rounded to a tenth; the ranked product
\* itself is kept beside them for reference.
RankedToDict(rp) ==
    [product |-> rp.product, score_result |-> rp.score_result,
     matchScore |-> Round1(rp.score_result.total),
     matchQuality |-> rp.score_result.quality]

ToDicts(ranked) == [i \in DOMAIN ranked |-> RankedToDict(ranked[i])]


\* ResolveUser that takes the transient profile for any user id.
ResolveUser_AnyId(usrs, user_id, filters) ==
    IF "_user" \in DOMAIN filters THEN <<filters["_user"]>>
    ELSE IF user_id \in DOMAIN usrs THEN <<usrs[user_id]>>
    ELSE <<>>

\* The user get_matched_products scores for: <<>> when the id does not resolve.
ResolveUser(usrs, user_id, filters) ==
    IF user_id = 0 /\ "_user" \in DOMAIN filters THEN <<filters["_user"]>>
    ELSE IF user_id \in DOMAIN usrs THEN <<usrs[user_id]>>
    ELSE <<>>

\* filters after the call: the preview path pops "_user" from the caller's dict.
FiltersAfter(user_id, filters) ==
    IF user_id = 0 /\ "_user" \in DOMAIN filters
    THEN [k \in DOMAIN filters \ {"_user"} |-> filters[k]]
    ELSE filters

\* The outcome of a call that raised ValueError.
NotFound(op, args) ==
    [op |-> op, args |-> args, status |-> "ValueError", products |-> <<>>,
     total |-> 0, averageScore |-> 0, lookups |-> 1, filters_after |-> <<>>]

\* get_matched_products(user_id, session, limit, offset, config, filters)
get_matched_products(usrs, cat, log, user_id, limit, offset, cfg, filters) ==
    LET args == [user_id |-> user_id, limit |-> limit, offset |-> offset,
                 filters |-> filters]
        found == ResolveUser(usrs, user_id, filters)
        u == found[1]
        rejected_ids == IF cfg.penalize_rejected /\ user_id # 0
                        THEN LoadRejectedIds(log, user_id) ELSE {}
        ranked == SortByScore(Qualifying(
                      QueryProducts(cat, u, cfg, FiltersAfter(user_id, filters)),
                      u, cfg, rejected_ids))
    IN  IF found = <<>> THEN NotFound("get_matched_products", args)
        ELSE [op |-> "get_matched_products", args |-> args, status |-> "ok",
              products |-> ToDicts(Paginate(ranked, offset, limit)),
              total |-> Len(ranked),
              averageScore |-> AverageScore(ranked),
              lookups |-> IF user_id = 0 /\ "_user" \in DOMAIN filters THEN 0 ELSE 1,
              filters_after |-> FiltersAfter(user_id, filters)]

\* ------------------------------------------------------------------------
\* matching/curator.py
\* ------------------------------------------------------------------------

\* _get_category(rp)
GetCategory(rp) ==
    IF TagsMissing(rp.product) THEN "unknown"
    ELSE Get(rp.product.ai_tags[1], "category", "unknown")

\* _get_brand(rp)
GetBrand(rp) == IF rp.product.brand # None THEN rp.product.brand ELSE "unknown"

\* Counter lookups: how many of the selected items have the category / brand.
CategoryCount(selected, cat) ==
    Cardinality({i \in DOMAIN selected : GetCategory(selected[i]) = cat})
BrandCount(selected, brand) ==
    Cardinality({i \in DOMAIN selected : GetBrand(selected[i]) = brand})


\* MaxPerCategory computed from the brand fraction.
MaxPerCategory_BrandFraction(target, cfg) ==
    Max(1, IntOfFraction(target, cfg.curation.max_brand_fraction))

\* max_per_category and max_per_brand
MaxPerCategory(target, cfg) ==
    Max(1, IntOfFraction(target, cfg.curation.max_category_fraction))
MaxPerBrand(target, cfg) ==
    Max(1, IntOfFraction(target, cfg.curation.max_brand_fraction))


\* Admits with the cap tests off by one (<= for <).
Admits_OffByOne(st, rp, target, cfg) ==
    /\ CategoryCount(st.selected, GetCategory(rp)) <= MaxPerCategory(target, cfg)
    /\ BrandCount(st.selected, GetBrand(rp)) <= MaxPerBrand(target, cfg)

\* Admits without the brand cap.
Admits_CategoryOnly(st, rp, target, cfg) ==
    CategoryCount(st.selected, GetCategory(rp)) < MaxPerCategory(target, cfg)

\* Admits without the category cap.
Admits_BrandOnly(st, rp, target, cfg) ==
    BrandCount(st.selected, GetBrand(rp)) < MaxPerBrand(target, cfg)

\* One item of the first pass: admitted when neither cap is reached, else deferred.
Admits(st, rp, target, cfg) ==
    /\ CategoryCount(st.selected, GetCategory(rp)) < MaxPerCategory(target, cfg)
    /\ BrandCount(st.selected, GetBrand(rp)) < MaxPerBrand(target, cfg)

\* The first loop of _apply_diversity_selection from pool[i] on; st holds the
\* selected and the deferred lists so far.
RECURSIVE FirstPassFrom(_, _, _, _, _)
FirstPassFrom(pl, target, cfg, i, st) ==
    IF i > Len(pl) \/ Len(st.selected) >= target THEN st
    ELSE IF Admits(st, pl[i], target, cfg)
    THEN FirstPassFrom(pl, target, cfg, i + 1,
                       [st EXCEPT !.selected = Append(@, pl[i])])
    ELSE FirstPassFrom(pl, target, cfg, i + 1,
                       [st EXCEPT !.deferred = Append(@, pl[i])])

FirstPass(pl, target, cfg) ==
    FirstPassFrom(pl, target, cfg, 1, [selected |-> <<>>, deferred |-> <<>>])

\* The relaxation runs: slots are open and something was deferred.
RelaxationRuns(st, target) == Len(st.selected) < target /\ st.deferred # <<>>


\* SortDeferred by descending score alone.
SortDeferred_ByScore(st) ==
    StableSort(st.deferred, [i \in DOMAIN st.deferred |-> <<-Score(st.deferred[i]), 0>>])

\* deferred.sort(key=(category_counts[category], -score)), the counts being
\* those at the end of the first pass.
SortDeferred(st) ==
    StableSort(st.deferred,
               [i \in DOMAIN st.deferred |->
                   <<CategoryCount(st.selected, GetCategory(st.deferred[i])),
                     -Score(st.deferred[i])>>])


\* Relax without the fill loop: the first pass's selection is returned.
Relax_NoFill(st, target) == st.selected

\* The fill loop: deferred items, in sorted order, until target is reached.
Relax(st, target) ==
    IF RelaxationRuns(st, target)
    THEN st.selected \o Slice(SortDeferred(st), 0, target - Len(st.selected))
    ELSE st.selected

\* _apply_diversity_selection(pool, target, config)
ApplyDiversitySelection(pl, target, cfg) == Relax(FirstPass(pl, target, cfg), target)


\* NextIndex that always takes the head of the remaining items.
NextIndex_Head(remaining, last_category) == 1

\* The index in remaining of the item the arrangement takes next.
NextIndex(remaining, last_category) ==
    IF \E i \in DOMAIN remaining : GetCategory(remaining[i]) # last_category
    THEN CHOOSE i \in DOMAIN remaining :
            /\ GetCategory(remaining[i]) # last_category
            /\ \A j \in 1..(i - 1) : GetCategory(remaining[j]) = last_category
    ELSE 1

\* remaining.pop(i)
Pop(seq, i) == [k \in 1..(Len(seq) - 1) |-> IF k < i THEN seq[k] ELSE seq[k + 1]]


\* ArrangeLoop that never updates last_category: every item is compared with
\* the hero's category.
RECURSIVE ArrangeLoop_StaleCategory(_, _, _)
ArrangeLoop_StaleCategory(arranged, remaining, last_category) ==
    IF remaining = <<>> THEN arranged
    ELSE LET i == NextIndex(remaining, last_category)
         IN  ArrangeLoop_StaleCategory(Append(arranged, remaining[i]), Pop(remaining, i),
                                       last_category)

\* The while loop of _arrange_for_visual_flow.
RECURSIVE ArrangeLoop(_, _, _)
ArrangeLoop(arranged, remaining, last_category) ==
    IF remaining = <<>> THEN arranged
    ELSE LET i == NextIndex(remaining, last_category)
         IN  ArrangeLoop(Append(arranged, remaining[i]), Pop(remaining, i),
                         GetCategory(remaining[i]))


\* _arrange_for_visual_flow that takes the last item as the hero.
ArrangeForVisualFlow_LastHero(products) ==
    IF Len(products) <= 2 THEN products
    ELSE ArrangeLoop(<<products[Len(products)]>>, Slice(products, 0, -1),
                     GetCategory(products[Len(products)]))

\* _arrange_for_visual_flow(products)
ArrangeForVisualFlow(products) ==
    IF Len(products) <= 2 THEN products
    ELSE ArrangeLoop(<<products[1]>>, Tail(products), GetCategory(products[1]))

\* target = max_products or config.curation.max_products (0 stands for None too)
Target(maxp, cfg) == IF maxp # 0 THEN maxp ELSE cfg.curation.max_products

\* pool_size = target * config.curation.oversample_factor
PoolSize(maxp, cfg) == Target(maxp, cfg) * cfg.curation.oversample_factor

\* The small-pool guard of curate_zine.
PoolTooSmall(pl, cfg) == Len(pl) < cfg.curation.min_products

\* curate_zine from the pool on: the guard, the selection, the arrangement.
\* products is CuratedZine.products; first and deferred are the lists at the
\* end of the first pass (empty when the guard returned the pool).
CurateFromPool(pl, maxp, cfg) ==
    LET target == Target(maxp, cfg)
        st == FirstPass(pl, target, cfg)
    IN  IF PoolTooSmall(pl, cfg)
        THEN [op |-> "curate_zine", products |-> pl, guard |-> TRUE,
              relaxed |-> FALSE, first |-> <<>>, deferred |-> <<>>]
        ELSE [op |-> "curate_zine",
              products |-> ArrangeForVisualFlow(ApplyDiversitySelection(pl, target, cfg)),
              guard |-> FALSE, relaxed |-> RelaxationRuns(st, target),
              first |-> st.selected, deferred |-> st.deferred]

\* A direct call of _apply_diversity_selection, as the tests make it.
SelectFromPool(pl, target, cfg) ==
    LET st == FirstPass(pl, target, cfg)
    IN  [op |-> "_apply_diversity_selection",
         products |-> ApplyDiversitySelection(pl, target, cfg),
         guard |-> FALSE, relaxed |-> RelaxationRuns(st, target),
         first |-> st.selected, deferred |-> st.deferred]

\* _build_pool(user_id, session, config, pool_size)
BuildPool(usrs, cat, log, user_id, cfg, pool_size) ==
    IF user_id \notin DOMAIN usrs THEN <<>>
    ELSE LET u == usrs[user_id]
             rejected_ids == IF cfg.penalize_rejected
                             THEN LoadRejectedIds(log, user_id) ELSE {}
             products == Rows(cat, {i \in DOMAIN cat : BaseCandidate(cat[i], u, cfg)})
         IN  Slice(SortByScore(Qualifying(products, u, cfg, rejected_ids)), 0, pool_size)

\* curate_zine(user_id, session, config, max_products)
curate_zine(usrs, cat, log, user_id, cfg, maxp) ==
    LET args == [user_id |-> user_id, max_products |-> maxp]
        raw == get_matched_products(usrs, cat, log, user_id, PoolSize(maxp, cfg), 0,
                                    cfg, <<>>)
        z == CurateFromPool(BuildPool(usrs, cat, log, user_id, cfg, PoolSize(maxp, cfg)),
                            maxp, cfg)
    IN  IF raw.status = "ValueError" THEN NotFound("curate_zine", args)
        ELSE [op |-> "curate_zine", args |-> args, status |-> "ok",
              products |-> ToDicts(z.products), total |-> Len(z.products),
              averageScore |-> IF z.products = <<>> THEN 0
                               ELSE RoundedMean(SumScores(z.products), Len(z.products)),
              lookups |-> 2, filters_after |-> <<>>,
              guard |-> z.guard, relaxed |-> z.relaxed]

\* ------------------------------------------------------------------------
\* Curator inputs
\* ------------------------------------------------------------------------

\* The longest pool and the largest max_products argument.
MaxPool == 4
MaxTarget == 3

Categories == {"tops", "bottoms"}
Brands == {"brandA", "brandB"}

\* A pool item as the tests build it: id, category tag, brand, score.
PoolItem(id, category, brand, score) ==
    RankedProduct([id |-> id, ai_tags |-> <<[category |-> category]>>, brand |-> brand],
                  [total |-> Pts(score), quality |-> "good"])

\* Scores by position: strictly decreasing, or all tied.
PoolScore(pattern, i) == IF pattern = "tied" THEN 70 ELSE 95 - 5 * i

\* Pools as _build_pool returns them: sorted by score descending, distinct ids.
Pools ==
    UNION {{[i \in 1..n |-> PoolItem(i, c[i], b[i], PoolScore(pattern, i))] :
                c \in [1..n -> Categories], b \in [1..n -> Brands],
                pattern \in {"distinct", "tied"}} : n \in 0..MaxPool}

CuratorConfigs ==
    {[DEFAULT_CONFIG EXCEPT !.curation.max_category_fraction = cf,
                            !.curation.max_brand_fraction = bf] :
        cf \in {40, 70}, bf \in {50, 100}}

\* ------------------------------------------------------------------------
\* The curator as a state machine: a pool, then one curation of it
\* ------------------------------------------------------------------------

CurateInit ==
    /\ deliveries = <<>> /\ committed = <<>> /\ job = IdleJob
    /\ config \in CuratorConfigs
    /\ max_products \in 0..MaxTarget
    /\ pool \in Pools
    /\ Len(pool) <= PoolSize(max_products, config)
    /\ zine = <<>>
    /\ user = [id |-> 1, aesthetic |-> None, palette |-> None, vibe |-> None,
               silhouette |-> "all", followed_brands |-> {}]
    /\ product = [id |-> 100, ai_tags |-> <<>>, brand |-> None, is_new |-> FALSE,
                  gender |-> None]
    /\ rejected = {}
    /\ result = <<>>
    /\ users = <<>> /\ catalog = <<>> /\ interactions = <<>> /\ response = <<>>

Curate ==
    /\ zine = <<>>
    /\ zine' = <<CurateFromPool(pool, max_products, config)>>
    /\ UNCHANGED <<config, pool, max_products>>
    /\ UNCHANGED scorerVars
    /\ UNCHANGED dbVars
    /\ UNCHANGED jobVars

Select ==
    /\ zine = <<>>
    /\ max_products >= 1
    /\ zine' = <<SelectFromPool(pool, max_products, config)>>
    /\ UNCHANGED <<config, pool, max_products>>
    /\ UNCHANGED scorerVars
    /\ UNCHANGED dbVars
    /\ UNCHANGED jobVars

CurateNext == Curate \/ Select

CurateSpec == CurateInit /\ [][CurateNext]_vars

\* ------------------------------------------------------------------------
\* The curator on the oversampled pool of one category-heavy catalog
\* ------------------------------------------------------------------------

\* Twenty tops scoring 90..71 followed by five bottoms scoring 70..66, as
\* _rp builds them; the items at positions a..b carry brandB, the others the
\* default brandA.
ScenarioPool(a, b) ==
    [i \in 1..25 |->
        PoolItem(i, IF i <= 20 THEN "tops" ELSE "bottoms",
                 IF a <= i /\ i <= b THEN "brandB" ELSE "brandA", 91 - i)]

\* The runs of brandB start at the top of the pool, inside the first three
\* tops, after them, or at the first of the bottoms; a > b gives one brand.
ScenarioPools == {ScenarioPool(a, b) : a \in {1, 2, 4, 21, 26}, b \in 0..25}

\* CurationRules(max_category_fraction=0.3), with the default brand fraction
\* and with the brand cap lifted.
ScenarioConfigs ==
    {[DEFAULT_CONFIG EXCEPT !.curation.max_category_fraction = 30,
                            !.curation.max_brand_fraction = bf] : bf \in {50, 100}}

ScenarioInit ==
    /\ deliveries = <<>> /\ committed = <<>> /\ job = IdleJob
    /\ config \in ScenarioConfigs
    /\ max_products = 10
    /\ pool \in ScenarioPools
    /\ zine = <<>>
    /\ user = [id |-> 1, aesthetic |-> None, palette |-> None, vibe |-> None,
               silhouette |-> "all", followed_brands |-> {}]
    /\ product = [id |-> 100, ai_tags |-> <<>>, brand |-> None, is_new |-> FALSE,
                  gender |-> None]
    /\ rejected = {}
    /\ result = <<>>
    /\ users = <<>> /\ catalog = <<>> /\ interactions = <<>> /\ response = <<>>

ScenarioSpec == ScenarioInit /\ [][CurateNext]_vars

\* ------------------------------------------------------------------------
\* The arrangement as a state machine: a list of selected items, then one
\* call of _arrange_for_visual_flow
\* ------------------------------------------------------------------------

\* The longest list arranged.
MaxArrange == 5

ArrangeCategories == {"tops", "bottoms", "outerwear"}

\* Lists as the tests build them: ids 1, 2, ..., scores falling from 95, one
\* brand, any categories.
ArrangeInputs ==
    UNION {{[i \in 1..n |-> PoolItem(i, c[i], "brandA", 100 - 5 * i)] :
                c \in [1..n -> ArrangeCategories]} : n \in 0..MaxArrange}

ArrangeInit ==
    /\ deliveries = <<>> /\ committed = <<>> /\ job = IdleJob
    /\ config = DEFAULT_CONFIG
    /\ max_products = 0
    /\ pool \in ArrangeInputs
    /\ zine = <<>>
    /\ user = [id |-> 1, aesthetic |-> None, palette |-> None, vibe |-> None,
               silhouette |-> "all", followed_brands |-> {}]
    /\ product = [id |-> 100, ai_tags |-> <<>>, brand |-> None, is_new |-> FALSE,
                  gender |-> None]
    /\ rejected = {}
    /\ result = <<>>
    /\ users = <<>> /\ catalog = <<>> /\ interactions = <<>> /\ response = <<>>

\* A direct call of _arrange_for_visual_flow(products), as the tests make it.
Arrange ==
    /\ zine = <<>>
    /\ zine' = <<[op |-> "_arrange_for_visual_flow",
                  products |-> ArrangeForVisualFlow(pool),
                  guard |-> FALSE, relaxed |-> FALSE, first |-> <<>>, deferred |-> <<>>]>>
    /\ UNCHANGED <<config, pool, max_products>>
    /\ UNCHANGED scorerVars
    /\ UNCHANGED dbVars
    /\ UNCHANGED jobVars

ArrangeNext == Arrange

ArrangeSpec == ArrangeInit /\ [][ArrangeNext]_vars

\* ------------------------------------------------------------------------
\* The database and the calls made on it
\* ------------------------------------------------------------------------

\* The longest catalog and the longest interaction log.
MaxCatalog == 2
MaxLog == 1

\* The one stored user, and the transient profile of a preview.
StoredUser ==
    [id |-> 1, aesthetic |-> "minimalist", palette |-> "neutral", vibe |-> "understated",
     silhouette |-> "womenswear", followed_brands |-> {"asket"}]
PreviewUser ==
    [id |-> 0, aesthetic |-> "maximalist", palette |-> None, vibe |-> None,
     silhouette |-> "all", followed_brands |-> {}]
StoredUsers == [id \in {1} |-> StoredUser]

\* The user ids a caller passes: the preview sentinel, the stored user, a
\* user that does not exist.
UserIds == {0, 1, 2}

PerfectTags ==
    [aesthetics |-> <<"minimalist", "scandinavian">>, palette |-> "neutral",
     vibes |-> <<"understated", "sophisticated">>, category |-> "tops"]
PaletteOnlyTags ==
    [aesthetics |-> <<"maximalist">>, palette |-> "neutral",
     vibes |-> <<"earthy", "cozy">>, category |-> "bottoms"]
WeakTags ==
    [aesthetics |-> <<"maximalist">>, palette |-> "earth-tones",
     vibes |-> <<"earthy", "cozy">>, category |-> "tops"]

\* The kinds of product row: a perfect match of the stored user, a palette-only
\* match, a match below min_score, an untagged row, a menswear row, a row
\* out of stock.
ProductRow(kind, id) ==
    LET base == [id |-> id, is_active |-> TRUE, availability |-> "in_stock",
                 ai_tags |-> <<PerfectTags>>, gender |-> "womens", category |-> "tops",
                 price |-> 50, brand |-> "asket", is_new |-> FALSE]
    IN  CASE kind = "perfect" -> base
          [] kind = "palette" -> [base EXCEPT !.ai_tags = <<PaletteOnlyTags>>,
                                    !.gender = "unisex", !.category = "bottoms",
                                    !.price = 150, !.brand = "cos", !.is_new = TRUE]
          [] kind = "weak" -> [base EXCEPT !.ai_tags = <<WeakTags>>, !.gender = None]
          [] kind = "untagged" -> [base EXCEPT !.ai_tags = <<>>]
          [] kind = "mens" -> [base EXCEPT !.ai_tags = <<WeakTags>>, !.gender = "mens"]
          [] kind = "sold_out" -> [base EXCEPT !.availability = "out_of_stock"]

ProductKinds == {"perfect", "palette", "weak", "untagged", "mens", "sold_out"}

\* The catalogs: up to MaxCatalog rows with ids 101, 102, ...
Catalogs ==
    UNION {{[i \in 1..n |-> ProductRow(k[i], 100 + i)] : k \in [1..n -> ProductKinds]} :
              n \in 0..MaxCatalog}

\* The product ids callers ask about: those of the catalog rows and one more.
ProductIds == {100 + i : i \in 1..(MaxCatalog + 1)}

VALID_ACTIONS == {"swipe_left", "swipe_right", "favorite", "unfavorite"}

\* The actions clients request.
RequestedActions == {"swipe_left", "swipe_right", "share"}


\* The filters callers pass: none, a category, a price ceiling, a preview profile.
FilterDicts ==
    {<<>>, [category |-> "tops"], [max_price |-> 100], [_user |-> PreviewUser]}

\* The (limit, offset, config, filters) callers pass: a full page under the
\* default configuration with each of the filters, and without filters a
\* second page of one item and a full page with min_score overridden as the
\* API does (to a value below good_match, and to one above it).
Requests ==
    {[limit |-> 50, offset |-> 0, config |-> DEFAULT_CONFIG, filters |-> f] :
        f \in FilterDicts}
    \cup {[limit |-> 1, offset |-> 1, config |-> DEFAULT_CONFIG, filters |-> <<>>],
          [limit |-> 50, offset |-> 0, config |-> WithMinScore(50), filters |-> <<>>],
          [limit |-> 50, offset |-> 0, config |-> WithMinScore(70), filters |-> <<>>]}

Init ==
    /\ deliveries = <<>> /\ committed = <<>> /\ job = IdleJob
    /\ users = StoredUsers
    /\ catalog \in Catalogs
    /\ interactions = <<>>
    /\ response = <<>>
    /\ config = DEFAULT_CONFIG
    /\ user = StoredUser
    /\ product = [id |-> 100, ai_tags |-> <<>>, brand |-> None, is_new |-> FALSE,
                  gender |-> None]
    /\ rejected = {}
    /\ result = <<>>
    /\ pool = <<>> /\ max_products = 0 /\ zine = <<>>

\* POST /api/interactions: a valid action of a stored user on a catalog
\* product is appended to the log.
LogInteraction ==
    /\ response = <<>>
    /\ Len(interactions) < MaxLog
    /\ \E user_id \in UserIds, i \in DOMAIN catalog, action \in RequestedActions :
          /\ action \in VALID_ACTIONS
          /\ user_id \in DOMAIN users
          /\ interactions' = Append(interactions,
                [user_id |-> user_id, product_id |-> catalog[i].id, action |-> action])
    /\ UNCHANGED <<config, users, catalog, response>>
    /\ UNCHANGED scorerVars
    /\ UNCHANGED curatorVars
    /\ UNCHANGED jobVars

\* A call of get_matched_products.
GetMatchedProducts ==
    /\ response = <<>>
    /\ \E user_id \in UserIds, req \in Requests :
          /\ response' = <<get_matched_products(users, catalog, interactions, user_id,
                                                 req.limit, req.offset, req.config,
                                                 req.filters)>>
          /\ config' = req.config
    /\ UNCHANGED <<users, catalog, interactions>>
    /\ UNCHANGED scorerVars
    /\ UNCHANGED curatorVars
    /\ UNCHANGED jobVars

\* A call of curate_zine with the default configuration.
CurateZine ==
    /\ response = <<>>
    /\ \E user_id \in UserIds, maxp \in {0, 1} :
          response' = <<curate_zine(users, catalog, interactions, user_id,
                                     DEFAULT_CONFIG, maxp)>>
    /\ config' = DEFAULT_CONFIG
    /\ UNCHANGED <<users, catalog, interactions>>
    /\ UNCHANGED scorerVars
    /\ UNCHANGED curatorVars
    /\ UNCHANGED jobVars

\* explain_product_match(user_id, product_id): the user and the product are
\* looked up by primary key, then explain_match runs with the default
\* configuration; pick as in score_product.
explain_product_match(usrs, cat, user_id, product_id, pick) ==
    LET args == [user_id |-> user_id, product_id |-> product_id]
        rows == {i \in DOMAIN cat : cat[i].id = product_id}
    IN  IF user_id \notin DOMAIN usrs
        THEN [op |-> "explain_product_match", args |-> args, status |-> "404",
              detail |-> "User not found"]
        ELSE IF rows = {}
        THEN [op |-> "explain_product_match", args |-> args, status |-> "404",
              detail |-> "Product not found"]
        ELSE [op |-> "explain_product_match", args |-> args, status |-> "ok",
              body |-> explain_match(usrs[user_id], cat[CHOOSE i \in rows : TRUE],
                                     DEFAULT_CONFIG, pick)]

\* GET /api/recommendations/{user_id}/explain/{product_id}
ExplainProductMatch ==
    /\ response = <<>>
    /\ \E user_id \in UserIds, product_id \in ProductIds :
          LET rows == {i \in DOMAIN catalog : catalog[i].id = product_id}
              picks == IF user_id \in DOMAIN users /\ rows # {}
                       THEN VibePicks(users[user_id],
                                      TagsOf(catalog[CHOOSE i \in rows : TRUE]))
                       ELSE {None}
          IN  \E pick \in picks :
                 response' = <<explain_product_match(users, catalog, user_id,
                                                     product_id, pick)>>
    /\ config' = DEFAULT_CONFIG
    /\ UNCHANGED <<users, catalog, interactions>>
    /\ UNCHANGED scorerVars
    /\ UNCHANGED curatorVars
    /\ UNCHANGED jobVars

\* The caller takes the outcome of the call.
Return ==
    /\ response # <<>>
    /\ response' = <<>>
    /\ UNCHANGED <<config, users, catalog, interactions>>
    /\ UNCHANGED scorerVars
    /\ UNCHANGED curatorVars
    /\ UNCHANGED jobVars

Next ==
    LogInteraction \/ GetMatchedProducts \/ CurateZine \/ ExplainProductMatch \/ Return

Spec == Init /\ [][Next]_vars

\* ------------------------------------------------------------------------
\* The interaction history of one user and the calls that read it
\* ------------------------------------------------------------------------

\* The longest interaction history.
MaxHistory == 2

\* A catalog of two rows the stored user can be shown.
HistoryCatalog == <<ProductRow("perfect", 101), ProductRow("palette", 102)>>

\* The configurations the API passes to the matching calls: the default, and
\* the default with min_score overridden.
HistoryConfigs == {DEFAULT_CONFIG, WithMinScore(50)}

HistoryInit ==
    /\ deliveries = <<>> /\ committed = <<>> /\ job = IdleJob
    /\ users = StoredUsers
    /\ catalog = HistoryCatalog
    /\ interactions = <<>>
    /\ response = <<>>
    /\ config = DEFAULT_CONFIG
    /\ user = StoredUser
    /\ product = [id |-> 100, ai_tags |-> <<>>, brand |-> None, is_new |-> FALSE,
                  gender |-> None]
    /\ rejected = {}
    /\ result = <<>>
    /\ pool = <<>> /\ max_products = 0 /\ zine = <<>>

\* POST /api/interactions with any action: a valid one is stored as a new
\* row, an invalid one is refused; no row is changed or removed.
LogAction ==
    /\ response = <<>>
    /\ Len(interactions) < MaxHistory
    /\ \E user_id \in DOMAIN users, i \in DOMAIN catalog,
          action \in VALID_ACTIONS \cup {"share"} :
          /\ action \in VALID_ACTIONS
          /\ interactions' = Append(interactions,
                [user_id |-> user_id, product_id |-> catalog[i].id, action |-> action])
    /\ UNCHANGED <<config, users, catalog, response>>
    /\ UNCHANGED scorerVars
    /\ UNCHANGED curatorVars
    /\ UNCHANGED jobVars

\* get_matched_products for the stored user, a full page without filters.
RankForUser ==
    /\ response = <<>>
    /\ \E user_id \in DOMAIN users, cfg \in HistoryConfigs :
          /\ response' = <<get_matched_products(users, catalog, interactions, user_id,
                                                 50, 0, cfg, <<>>)>>
          /\ config' = cfg
    /\ UNCHANGED <<users, catalog, interactions>>
    /\ UNCHANGED scorerVars
    /\ UNCHANGED curatorVars
    /\ UNCHANGED jobVars

\* curate_zine for the stored user, with the default configuration.
CurateForUser ==
    /\ response = <<>>
    /\ \E user_id \in DOMAIN users :
          response' = <<curate_zine(users, catalog, interactions, user_id,
                                     DEFAULT_CONFIG, 0)>>
    /\ config' = DEFAULT_CONFIG
    /\ UNCHANGED <<users, catalog, interactions>>
    /\ UNCHANGED scorerVars
    /\ UNCHANGED curatorVars
    /\ UNCHANGED jobVars

HistoryNext == LogAction \/ RankForUser \/ CurateForUser \/ Return

HistorySpec == HistoryInit /\ [][HistoryNext]_vars

\* ------------------------------------------------------------------------
\* jobs/zine_delivery.py
\* ------------------------------------------------------------------------

\* The number of users.
MaxUsers == 2

\* datetime.utcnow() during the run, in days.
Now == 100

\* TEMPO_INTERVALS.get(user.tempo, TEMPO_INTERVALS["monthly"]), in days.
TempoInterval(tempo) ==
    CASE tempo = "weekly" -> 7
      [] tempo = "monthly" -> 30
      [] tempo = "quarterly" -> 90
      [] OTHER -> 30

MAX_PRODUCTS_PER_DELIVERY == 12

\* A users row: the profile of the stored user, with the delivery columns.
JobUser(id, is_active) ==
    [id |-> id, aesthetic |-> "minimalist", palette |-> "neutral",
     vibe |-> "understated", silhouette |-> "womenswear", followed_brands |-> {"asket"},
     is_active |-> is_active,
     tempo |-> CASE id % 3 = 1 -> "weekly" [] id % 3 = 2 -> "biweekly" [] OTHER -> "quarterly",
     contact_method |-> IF id % 2 = 1 THEN "email" ELSE "phone"]

\* The users tables: MaxUsers rows, each active or not.
JobUsers ==
    {[id \in 1..MaxUsers |-> JobUser(id, active[id])] : active \in [1..MaxUsers -> BOOLEAN]}

\* ZineDelivery(user_id, scheduled_at, status, ...)
ZineDelivery(id, user_id, scheduled_at, status) ==
    [id |-> id, user_id |-> user_id, scheduled_at |-> scheduled_at, status |-> status,
     product_ids |-> <<>>, error |-> None]

\* The deliveries an earlier run left: none, or one record of a user, delivered
\* or failed, a day or ten days ago.
EarlierDeliveries ==
    {<<>>} \cup {<<ZineDelivery(1, user_id, Now - age, status)>> :
                    user_id \in 1..MaxUsers, age \in {1, 10},
                    status \in {"delivered", "failed"}}

\* The last delivery of get_due_users: the scheduled_at values of the user's
\* records that are delivered, generating or pending.
LastDeliveries(table, user_id) ==
    {table[i].scheduled_at : i \in {j \in DOMAIN table :
        /\ table[j].user_id = user_id
        /\ table[j].status \in {"delivered", "generating", "pending"}}}

\* A user is due: never delivered, or the interval has passed since the
\* latest of the last deliveries.
IsDue(u, table) ==
    \/ LastDeliveries(table, u.id) = {}
    \/ \E latest \in LastDeliveries(table, u.id) :
          /\ \A other \in LastDeliveries(table, u.id) : other <= latest
          /\ Now - latest >= TempoInterval(u.tempo)

\* get_due_users(session): the ids of the active users that are due, in the
\* order of the users query.
get_due_users(usrs, table) ==
    Rows([i \in DOMAIN usrs |-> i],
         {i \in DOMAIN usrs : usrs[i].is_active /\ IsDue(usrs[i], table)})

\* curate_products(session, user): the ids of the products of the zine.
curate_products(usrs, cat, log, user_id) ==
    LET z == curate_zine(usrs, cat, log, user_id, DEFAULT_CONFIG, MAX_PRODUCTS_PER_DELIVERY)
    IN  [i \in DOMAIN z.products |-> z.products[i].product.id]

\* ------------------------------------------------------------------------
\* The delivery job as a state machine: one run, statement by statement
\* ------------------------------------------------------------------------

DeliveryInit ==
    /\ users \in JobUsers
    /\ catalog \in {<<>>, HistoryCatalog}
    /\ interactions = <<>>
    /\ response = <<>>
    /\ deliveries \in EarlierDeliveries
    /\ committed = deliveries
    /\ job = [pc |-> "start", due |-> <<>>, products |-> <<>>,
              first |-> Len(deliveries) + 1]
    /\ config = DEFAULT_CONFIG
    /\ user = StoredUser
    /\ product = [id |-> 100, ai_tags |-> <<>>, brand |-> None, is_new |-> FALSE,
                  gender |-> None]
    /\ rejected = {}
    /\ result = <<>>
    /\ pool = <<>> /\ max_products = 0 /\ zine = <<>>

\* What a step of the job leaves alone.
JobFrame ==
    /\ UNCHANGED <<config, users, catalog, interactions, response>>
    /\ UNCHANGED scorerVars
    /\ UNCHANGED curatorVars

\* The record of the user being processed: the last one added.
Current == Len(deliveries)

\* The record's status and error are assigned.
WithStatus(table, i, status, error) ==
    [table EXCEPT ![i].status = status, ![i].error = error]

\* due_users = get_due_users(session)
GetDueUsers ==
    /\ job.pc = "start"
    /\ job' = [job EXCEPT !.pc = "loop", !.due = get_due_users(users, deliveries)]
    /\ UNCHANGED <<deliveries, committed>>
    /\ JobFrame

\* The outer except: a query or the flush of a new record raised; the session
\* is rolled back and closed, the job is over.
SessionFails ==
    /\ \/ job.pc = "start"
       \/ job.pc = "loop" /\ job.due # <<>>
    /\ deliveries' = committed
    /\ job' = [job EXCEPT !.pc = "done"]
    /\ UNCHANGED committed
    /\ JobFrame

\* delivery = ZineDelivery(..., status="pending"); session.add; session.flush
CreatePending ==
    /\ job.pc = "loop" /\ job.due # <<>>
    /\ deliveries' = Append(deliveries,
                            ZineDelivery(Len(deliveries) + 1, Head(job.due), Now, "pending"))
    /\ job' = [job EXCEPT !.pc = "pending"]
    /\ UNCHANGED committed
    /\ JobFrame

\* delivery.status = "generating"; session.flush()
MarkGenerating ==
    /\ job.pc = "pending"
    /\ deliveries' = WithStatus(deliveries, Current, "generating", None)
    /\ job' = [job EXCEPT !.pc = "generating"]
    /\ UNCHANGED committed
    /\ JobFrame

\* products = curate_products(session, user); without products the record is
\* marked delivered with a note, committed, and the loop continues.
CurateProducts ==
    /\ job.pc = "generating"
    /\ \E products \in {curate_products(users, catalog, interactions, Head(job.due))} :
          LET curated == [deliveries EXCEPT ![Current].product_ids = products]
          IN  IF products = <<>>
              THEN /\ deliveries' = WithStatus(curated, Current, "delivered",
                                               "No matching products found")
                   /\ committed' = deliveries'
                   /\ job' = [job EXCEPT !.pc = "loop", !.due = Tail(job.due)]
              ELSE /\ deliveries' = curated
                   /\ job' = [job EXCEPT !.pc = "curated", !.products = products]
                   /\ UNCHANGED committed
    /\ JobFrame

\* curate_products raised.
CurateFails ==
    /\ job.pc = "generating"
    /\ job' = [job EXCEPT !.pc = "except"]
    /\ UNCHANGED <<deliveries, committed>>
    /\ JobFrame

\* send_delivery_email(user, products), for a user reached by email.
SendDeliveryEmail ==
    /\ job.pc = "curated"
    /\ users[Head(job.due)].contact_method = "email"
    /\ job' = [job EXCEPT !.pc = "sent"]
    /\ UNCHANGED <<deliveries, committed>>
    /\ JobFrame

\* send_delivery_email raised: SMTP is not configured, or the server refused.
SendFails ==
    /\ job.pc = "curated"
    /\ users[Head(job.due)].contact_method = "email"
    /\ job' = [job EXCEPT !.pc = "except"]
    /\ UNCHANGED <<deliveries, committed>>
    /\ JobFrame

\* delivery.status = "delivered"; session.commit()
MarkDelivered ==
    /\ \/ job.pc = "sent"
       \/ job.pc = "curated" /\ users[Head(job.due)].contact_method # "email"
    /\ deliveries' = WithStatus(deliveries, Current, "delivered", None)
    /\ committed' = deliveries'
    /\ job' = [job EXCEPT !.pc = "loop", !.due = Tail(job.due), !.products = <<>>]
    /\ JobFrame

\* MarkFailed that gives the run up: the session is rolled back and the job ends.
MarkFailed_GiveUp ==
    /\ job.pc = "except"
    /\ deliveries' = committed
    /\ job' = [job EXCEPT !.pc = "done"]
    /\ UNCHANGED committed
    /\ JobFrame

\* except Exception: delivery.status = "failed"; session.commit(); the loop
\* continues with the next due user.
MarkFailed ==
    /\ job.pc = "except"
    /\ deliveries' = WithStatus(deliveries, Current, "failed", "error")
    /\ committed' = deliveries'
    /\ job' = [job EXCEPT !.pc = "loop", !.due = Tail(job.due), !.products = <<>>]
    /\ JobFrame

\* The loop is over: session.close()
Finish ==
    /\ job.pc = "loop" /\ job.due = <<>>
    /\ deliveries' = committed
    /\ job' = [job EXCEPT !.pc = "done"]
    /\ UNCHANGED committed
    /\ JobFrame

DeliveryNext ==
    \/ GetDueUsers \/ SessionFails \/ CreatePending \/ MarkGenerating
    \/ CurateProducts \/ CurateFails \/ SendDeliveryEmail \/ SendFails
    \/ MarkDelivered \/ MarkFailed \/ Finish

DeliverySpec == DeliveryInit /\ [][DeliveryNext]_vars

\* ------------------------------------------------------------------------
\* Properties of the ranker and of the calls (checked under Spec)
\* ------------------------------------------------------------------------

Responded == response # <<>>

\* C2: every product in the page get_matched_products returns has a score
\* total of at least config.filters.min_score.
C2_PageAboveMinScore ==
    (Responded /\ response[1].op = "get_matched_products") =>
        \A i \in DOMAIN response[1].products :
            response[1].products[i].score_result.total >= Pts(config.filters.min_score)

\* C2 witness: under min_score 50 a non-empty page was returned from a catalog
\* that also holds an in-stock row scoring between 20 and 50.
C2_Witness ==
    /\ Responded /\ response[1].op = "get_matched_products"
    /\ response[1].status = "ok"
    /\ config.filters.min_score = 50
    /\ response[1].args.user_id = 1 /\ response[1].args.filters = <<>>
    /\ response[1].products # <<>>
    /\ \E i \in DOMAIN catalog :
          /\ catalog[i].availability = "in_stock"
          /\ ScoreOf(StoredUser, catalog[i], config, {}).total >= Pts(20)
          /\ ScoreOf(StoredUser, catalog[i], config, {}).total < Pts(50)

\* C10: get_matched_products fails with the not-found error, returning no
\* result, exactly when the user id is not a stored user's, unless the id is 0
\* and filters carries a transient profile; curate_zine, which passes no
\* filters, fails exactly when the id is not a stored user's.  The failing call
\* looked the user up once.
C10_NotFound ==
    (Responded /\ response[1].op \in {"get_matched_products", "curate_zine"}) =>
        LET r == response[1]
            stored == r.args.user_id \in DOMAIN users
            preview == /\ r.op = "get_matched_products"
                       /\ r.args.user_id = 0
                       /\ "_user" \in DOMAIN r.args.filters
        IN  /\ (r.status = "ValueError") <=> (~stored /\ ~preview)
            /\ r.status = "ValueError" => (r.products = <<>> /\ r.lookups = 1)
            /\ r.status # "ValueError" => r.status = "ok"

\* C10 witness: a call for a user that does not exist, with a transient
\* profile in filters, failed.
C10_Witness ==
    /\ Responded /\ response[1].op = "get_matched_products"
    /\ response[1].args.user_id = 2
    /\ "_user" \in DOMAIN response[1].args.filters
    /\ response[1].status = "ValueError"
    /\ catalog # <<>>

\* ------------------------------------------------------------------------
\* Properties of the curator (checked under CurateSpec)
\* ------------------------------------------------------------------------

Curated == zine # <<>> /\ zine[1].op = "curate_zine"
Selected == zine # <<>> /\ ~zine[1].guard

\* The caps as the selection computes them, and floor(target x fraction).
CategoryCap == Max(1, (Target(max_products, config)
                        * config.curation.max_category_fraction) \div 100)
BrandCap == Max(1, (Target(max_products, config)
                        * config.curation.max_brand_fraction) \div 100)
CategoryFloor == (Target(max_products, config)
                    * config.curation.max_category_fraction) \div 100

\* The returned products exceed a category cap or a brand cap.
ExceedsACap ==
    \/ \E c \in Categories : CategoryCount(zine[1].products, c) > CategoryCap
    \/ \E b \in Brands : BrandCount(zine[1].products, b) > BrandCap

\* Some set of min(target, |pool|) pool items respects both caps.
FeasibleSetExists ==
    \E S \in SUBSET (DOMAIN pool) :
        /\ Cardinality(S) = Min(Target(max_products, config), Len(pool))
        /\ \A c \in Categories :
              Cardinality({i \in S : GetCategory(pool[i]) = c}) <= CategoryCap
        /\ \A b \in Brands :
              Cardinality({i \in S : GetBrand(pool[i]) = b}) <= BrandCap

\* C3: the first item of a non-empty collection curate_zine returns has a
\* score at least that of every other item of the collection.
C3_HeroFirst ==
    (Curated /\ zine[1].products # <<>>) =>
        \A i \in DOMAIN zine[1].products :
            Score(zine[1].products[1]) >= Score(zine[1].products[i])

\* C3 witness: a collection of three or more items with distinct scores that
\* went through selection with relaxation and was reordered by the arrangement.
C3_Witness ==
    /\ Curated /\ ~zine[1].guard /\ zine[1].relaxed
    /\ Len(zine[1].products) >= 3
    /\ Score(zine[1].products[1]) > Score(zine[1].products[3])
    /\ Score(zine[1].products[3]) > Score(zine[1].products[2])
    /\ zine[1].products[1] = pool[1]

\* C4 as stated: no category count in the collection exceeds
\* floor(target x max_category_fraction) unless the relaxation pass ran.
C4_Original ==
    Curated =>
        \/ zine[1].relaxed
        \/ \A c \in Categories : CategoryCount(zine[1].products, c) <= CategoryFloor

\* C4: no category count in the collection exceeds
\* max(1, floor(target x max_category_fraction)) unless the relaxation pass
\* ran or the guard returned a pool smaller than min_products as it was.
C4_CategoryCap ==
    Curated =>
        \/ zine[1].relaxed
        \/ zine[1].guard
        \/ \A c \in Categories : CategoryCount(zine[1].products, c) <= CategoryCap

\* C4 witness: a selection without relaxation in which a category is at its
\* cap of 2 and an item of that category was left out.
C4_Witness ==
    /\ Curated /\ ~zine[1].guard /\ ~zine[1].relaxed
    /\ CategoryCap = 2
    /\ \E c \in Categories :
          /\ CategoryCount(zine[1].products, c) = 2
          /\ CategoryCount(pool, c) > 2

\* C5 as stated: when the selection exceeds a category or brand cap, no set of
\* min(target, |pool|) pool items respects both caps.
C5_Original == (Selected /\ ExceedsACap) => ~FeasibleSetExists

\* C5: when the selection exceeds a category or brand cap, the relaxation
\* pass ran: the first pass went through the whole pool, admitted fewer than
\* target items, and every item it did not admit has a category or a brand
\* that is at its cap among the admitted ones.
C5_ViolationOnlyByRelaxation ==
    (Selected /\ ExceedsACap) =>
        /\ zine[1].relaxed
        /\ Len(zine[1].first) < Target(max_products, config)
        /\ Len(zine[1].first) + Len(zine[1].deferred) = Len(pool)
        /\ \A i \in DOMAIN zine[1].deferred :
              \/ CategoryCount(zine[1].first, GetCategory(zine[1].deferred[i]))
                    >= CategoryCap
              \/ BrandCount(zine[1].first, GetBrand(zine[1].deferred[i])) >= BrandCap

\* C5 witness: a selection that exceeds the brand cap only, after relaxation.
C5_Witness ==
    /\ Selected /\ zine[1].op = "_apply_diversity_selection"
    /\ zine[1].relaxed
    /\ \E b \in Brands : BrandCount(zine[1].products, b) > BrandCap
    /\ \A c \in Categories : CategoryCount(zine[1].products, c) <= CategoryCap

\* ------------------------------------------------------------------------
\* Properties of score_product (checked under ScoreSpec)
\* ------------------------------------------------------------------------

Scored == result # <<>>

\* The three dimensions match exactly, read from the inputs.
ExactAesthetic ==
    Truthy(user.aesthetic)
    /\ user.aesthetic \in Range(Get(TagsOf(product), "aesthetics", <<>>))
ExactPalette ==
    Truthy(user.palette) /\ user.palette = Get(TagsOf(product), "palette", "")
ExactVibe ==
    Truthy(user.vibe) /\ user.vibe \in Range(Get(TagsOf(product), "vibes", <<>>))

\* The product's palette / some product vibe is compatible with, and not equal
\* to, the user's value.
CompatiblePalette ==
    /\ Truthy(user.palette) /\ ~ExactPalette
    /\ Get(TagsOf(product), "palette", "") \in PaletteCompatible(user.palette)
CompatibleVibe ==
    /\ Truthy(user.vibe) /\ ~ExactVibe
    /\ \E v \in Range(Get(TagsOf(product), "vibes", <<>>)) : v \in VibeCompatible(user.vibe)

\* No bonus and no penalty applies to the pair.
NoBonusNoPenalty ==
    /\ product.brand \notin user.followed_brands
    /\ ~product.is_new
    /\ ~(config.penalize_rejected /\ product.id \in rejected)

\* The user's silhouette is menswear or womenswear and the product declares a
\* gender that is neither that silhouette's gender nor unisex.
GenderMismatch ==
    \/ user.silhouette = "menswear" /\ product.gender \notin {None, "mens", "unisex"}
    \/ user.silhouette = "womenswear" /\ product.gender \notin {None, "womens", "unisex"}

C6_Original ==
    (Scored /\ ExactAesthetic /\ ExactPalette /\ ExactVibe /\ NoBonusNoPenalty)
        => (result[1].total = Pts(100) /\ result[1].quality = "excellent")

\* C6: whenever the three dimensions match exactly, no bonus or penalty
\* applies and the product is not excluded by the hard gender filter, the
\* total is 100 and the quality is "excellent".
C6_PerfectMatch ==
    (Scored /\ ExactAesthetic /\ ExactPalette /\ ExactVibe /\ NoBonusNoPenalty
        /\ ~GenderMismatch)
        => (result[1].total = Pts(100) /\ result[1].quality = "excellent")

\* C6 witness: a perfect match of a womenswear user with a womens product.
C6_Witness ==
    /\ Scored /\ ExactAesthetic /\ ExactPalette /\ ExactVibe /\ NoBonusNoPenalty
    /\ user.silhouette = "womenswear" /\ product.gender = "womens"
    /\ config.weights.aesthetic = 50
    /\ result[1].total = Pts(100)

\* C7: a gender mismatch under a specific silhouette yields total 0 whatever
\* matches; a product that is unisex or has no gender, and a user with
\* silhouette "all", score as if the filter were not there (same total and
\* points as with the gender removed and the silhouette "all").
C7_GenderFilter ==
    Scored =>
        /\ GenderMismatch => result[1].total = 0
        /\ (product.gender \in {None, "unisex"} \/ user.silhouette = "all") =>
              LET free == ScoreOf([user EXCEPT !.silhouette = "all"],
                                  [product EXCEPT !.gender = None], config, rejected)
              IN  /\ result[1].total = free.total
                  /\ result[1].base = free.base
                  /\ result[1].quality = free.quality

\* C7 witness: a perfect match with a followed brand excluded by gender, total 0.
C7_Witness ==
    /\ Scored /\ GenderMismatch
    /\ ExactAesthetic /\ ExactPalette /\ ExactVibe
    /\ product.brand \in user.followed_brands /\ product.is_new
    /\ result[1].total = 0

\* C8 as stated: palette and vibe points are 0, half or the full weight; half
\* is awarded exactly when there is no exact match and the product's value is
\* compatible with the user's, and the partial flag is set exactly then.
C8_Original ==
    Scored =>
        LET r == result[1]
        IN  /\ r.palette_points \in {0, r.palette_max \div 2, r.palette_max}
            /\ r.vibe_points \in {0, r.vibe_max \div 2, r.vibe_max}
            /\ (r.palette_points = r.palette_max \div 2) <=> CompatiblePalette
            /\ (r.vibe_points = r.vibe_max \div 2) <=> CompatibleVibe
            /\ r.partial_palette <=> CompatiblePalette
            /\ r.partial_vibe <=> CompatibleVibe

\* C8: for a product the hard gender filter does not exclude, palette and
\* vibe points are 0, half or the full weight; half is awarded exactly when
\* there is no exact match and the product's value is compatible with the
\* user's, and the partial flag is set exactly then.  For an excluded product
\* the points are 0 and the flags are unset.
C8_HalfCredit ==
    Scored =>
        LET r == result[1]
        IN  /\ r.palette_points \in {0, r.palette_max \div 2, r.palette_max}
            /\ r.vibe_points \in {0, r.vibe_max \div 2, r.vibe_max}
            /\ ~GenderMismatch =>
                  /\ (r.palette_points = r.palette_max \div 2) <=> CompatiblePalette
                  /\ (r.vibe_points = r.vibe_max \div 2) <=> CompatibleVibe
                  /\ r.partial_palette <=> CompatiblePalette
                  /\ r.partial_vibe <=> CompatibleVibe
                  /\ ExactPalette => r.palette_points = r.palette_max
                  /\ ExactVibe => r.vibe_points = r.vibe_max
            /\ GenderMismatch =>
                  /\ r.palette_points = 0 /\ r.vibe_points = 0
                  /\ ~r.partial_palette /\ ~r.partial_vibe

\* C8 witness: neutral user, earth-tones product: 12.5 of 25 palette points.
C8_Witness ==
    /\ Scored /\ ~GenderMismatch
    /\ user.palette = "neutral"
    /\ Get(TagsOf(product), "palette", "") = "earth-tones"
    /\ config.weights.palette = 25
    /\ result[1].palette_points = Pts(25) \div 2
    /\ result[1].partial_palette
    /\ user.vibe = "glamorous" /\ result[1].partial_vibe

\* C9: all else equal, following the product's brand or flagging the product
\* new never yields a lower total.
C9_BonusMonotone ==
    Scored =>
        LET follow == [user EXCEPT !.followed_brands = @ \cup {product.brand}]
            unfollow == [user EXCEPT !.followed_brands = @ \ {product.brand}]
            new == [product EXCEPT !.is_new = TRUE]
            old == [product EXCEPT !.is_new = FALSE]
        IN  /\ ScoreOf(follow, product, config, rejected).total
                 >= ScoreOf(unfollow, product, config, rejected).total
            /\ ScoreOf(user, new, config, rejected).total
                 >= ScoreOf(user, old, config, rejected).total
            /\ result[1].total \in {ScoreOf(follow, product, config, rejected).total,
                                    ScoreOf(unfollow, product, config, rejected).total}
            /\ result[1].total \in {ScoreOf(user, new, config, rejected).total,
                                    ScoreOf(user, old, config, rejected).total}

\* C9 witness: a rejected, followed, new product whose total the bonuses raised.
C9_Witness ==
    /\ Scored
    /\ product.brand \in user.followed_brands /\ product.is_new
    /\ "rejected" \in DOMAIN result[1].penalties
    /\ result[1].total >
         ScoreOf([user EXCEPT !.followed_brands = {}],
                 [product EXCEPT !.is_new = FALSE], config, rejected).total
    /\ result[1].total < Pts(100)

\* ------------------------------------------------------------------------
\* Properties of the configuration (checked under Spec)
\* ------------------------------------------------------------------------

\* min_score <= good_match <= excellent_match
ThresholdsIncreasing(f) == f.min_score <= f.good_match /\ f.good_match <= f.excellent_match

\* C11 as stated: a configuration whose weights do not sum to 100 or whose
\* thresholds are not increasing is rejected when it is constructed, so every
\* rank or curate call that returned a result ran with weights summing to 100
\* and increasing thresholds.
C11_Original ==
    (Responded /\ response[1].status = "ok") =>
        /\ WeightsValid(config.weights)
        /\ ThresholdsIncreasing(config.filters)

\* ------------------------------------------------------------------------
\* Properties of the diversity selection (checked under CurateSpec)
\* ------------------------------------------------------------------------

\* The ids of the items of a list of ranked products.
Ids(ranked) == {ranked[i].product.id : i \in DOMAIN ranked}

\* C12: for target >= 1, _apply_diversity_selection returns exactly
\* min(target, |pool|) items, each a distinct member of the pool; a pool no
\* larger than target is returned in full.
C12_SelectionSize ==
    (Selected /\ max_products >= 1) =>
        LET products == zine[1].products
        IN  /\ Len(products) = Min(max_products, Len(pool))
            /\ Range(products) \subseteq Range(pool)
            /\ Cardinality(Ids(products)) = Len(products)
            /\ Len(pool) <= max_products => Range(products) = Range(pool)

\* The caps left slots open after the first pass and the relaxation filled
\* them up to target from a pool larger than target.
C12_Witness ==
    /\ Selected
    /\ max_products >= 2
    /\ Len(pool) > max_products
    /\ zine[1].relaxed
    /\ Len(zine[1].first) < max_products
    /\ Len(zine[1].products) = max_products

\* ------------------------------------------------------------------------
\* Properties of the selection on the category-heavy pool (checked under
\* ScenarioSpec)
\* ------------------------------------------------------------------------

\* The items of a list whose category is "tops".
TopsOf(ranked) == {rp \in Range(ranked) : GetCategory(rp) = "tops"}

\* The pool's items scoring 90, 89 and 88.
ThreeBestTops == {rp \in Range(pool) : Score(rp) >= Pts(88)}

\* C13: with 20 tops scoring 90..71 and 5 bottoms scoring 70..66, target 10
\* and max_category_fraction 0.3, the first pass admits exactly three tops,
\* those scoring 90, 89 and 88; the final selection has exactly 10 items and
\* those three tops are among them.
C13_ScenarioE ==
    Selected =>
        /\ TopsOf(zine[1].first) = ThreeBestTops
        /\ Cardinality(ThreeBestTops) = 3
        /\ Len(zine[1].products) = 10
        /\ ThreeBestTops \subseteq Range(zine[1].products)

\* The selection ran on the pool with one brand throughout: three tops and
\* two bottoms admitted under the brand cap of 5, the rest filled by relaxation.
C13_Witness ==
    /\ Selected
    /\ zine[1].op = "_apply_diversity_selection"
    /\ \A i \in DOMAIN pool : GetBrand(pool[i]) = "brandA"
    /\ Len(pool) = 25
    /\ zine[1].relaxed
    /\ Len(zine[1].first) = 5
    /\ Len(zine[1].products) = 10

\* ------------------------------------------------------------------------
\* Properties of the scorer: missing data, penalty, quality (checked under
\* ScoreSpec)
\* ------------------------------------------------------------------------

\* The item has no classification: ai_tags is None or the empty dict.
Unclassified == product.ai_tags = <<>> \/ product.ai_tags = << <<>> >>

\* C14: for an item with no classification score_product returns total 0 with
\* missing_data set under both settings of require_ai_tags; when
\* classification is required the result is the zero breakdown (no dimension,
\* bonus or penalty evaluated), and when it is not required every dimension
\* scores 0 and the total is 0 whatever bonuses apply.
C14_MissingData ==
    (Scored /\ Unclassified) =>
        /\ result[1].total = 0
        /\ result[1].missing_data
        /\ result[1].aesthetic_points = 0
        /\ result[1].palette_points = 0
        /\ result[1].vibe_points = 0
        /\ result[1].base = 0
        /\ config.require_ai_tags =>
              result[1] = [ScoreResult(config) EXCEPT !.missing_data = TRUE]

\* Classification is not required, the unclassified item is new and of a
\* followed brand: both bonuses were applied and the total is still 0.
C14_Witness ==
    /\ Scored /\ Unclassified
    /\ ~config.require_ai_tags
    /\ ~GenderMismatch
    /\ DOMAIN result[1].bonuses = {"brand_affinity", "newness"}
    /\ result[1].total = 0
    /\ result[1].missing_data

\* ------------------------------------------------------------------------
\* Properties of the ranked list and its page (checked under Spec)
\* ------------------------------------------------------------------------

\* A call of get_matched_products returned a result.
Ranked ==
    Responded /\ response[1].op = "get_matched_products" /\ response[1].status = "ok"

\* The position of a returned product among the rows of the products table,
\* which is the order the candidate query returns them in.
FetchPosition(entry) == CHOOSE k \in DOMAIN catalog : catalog[k].id = entry.product.id

\* C15: the list get_matched_products pages through is ordered by score
\* descending, and two items with equal scores keep the relative order in
\* which the candidate query returned them.
C15_StableDescending ==
    Ranked =>
        \A i, j \in DOMAIN response[1].products :
            i < j =>
                LET a == response[1].products[i]
                    b == response[1].products[j]
                IN  /\ a.score_result.total >= b.score_result.total
                    /\ a.score_result.total = b.score_result.total =>
                          FetchPosition(a) < FetchPosition(b)

\* A full page holding two products with equal scores.
C15_Witness ==
    /\ Ranked
    /\ response[1].args.offset = 0
    /\ Len(response[1].products) = 2
    /\ response[1].products[1].score_result.total
          = response[1].products[2].score_result.total
    /\ response[1].products[1].product.id # response[1].products[2].product.id

\* The user the returned call scored for, the rejection set it loaded and the
\* filters it applied, read from the call's arguments.
CallUser == ResolveUser(users, response[1].args.user_id, response[1].args.filters)[1]
CallRejected ==
    IF config.penalize_rejected /\ response[1].args.user_id # 0
    THEN LoadRejectedIds(interactions, response[1].args.user_id) ELSE {}
CallFilters == FiltersAfter(response[1].args.user_id, response[1].args.filters)

\* The rows of the products table that are candidates of the call and score
\* at least min_score, as positions in the table.
QualifyingRows ==
    {k \in DOMAIN catalog :
        /\ BaseCandidate(catalog[k], CallUser, config)
        /\ OptionalFilters(catalog[k], CallFilters)
        /\ ScoreOf(CallUser, catalog[k], config, CallRejected).total
              >= Pts(config.filters.min_score)}

\* The sum of the scores of a set of rows.
RECURSIVE SumOfRows(_)
SumOfRows(rows) ==
    IF rows = {} THEN 0
    ELSE LET k == CHOOSE x \in rows : TRUE
         IN  ScoreOf(CallUser, catalog[k], config, CallRejected).total
               + SumOfRows(rows \ {k})

\* The same call with another page: limit and offset replaced.
SameCall(limit, offset) ==
    get_matched_products(users, catalog, interactions, response[1].args.user_id,
                         limit, offset, config, response[1].args.filters)

C17_Original ==
    Ranked => response[1].filters_after = response[1].args.filters

\* ------------------------------------------------------------------------
\* Properties of the first pass (checked under CurateSpec)
\* ------------------------------------------------------------------------

\* No category and no brand occurs in the list more often than its cap.
WithinCaps(ranked) ==
    /\ \A c \in Categories : CategoryCount(ranked, c) <= CategoryCap
    /\ \A b \in Brands : BrandCount(ranked, b) <= BrandCap

\* C18: at the end of the first pass of _apply_diversity_selection, and in the
\* final selection whenever the relaxation adds no item, no category occurs
\* more than max(1, floor(target x max_category_fraction)) times and no brand
\* more than max(1, floor(target x max_brand_fraction)) times.
C18_FirstPassCaps ==
    Selected =>
        /\ WithinCaps(zine[1].first)
        /\ Len(zine[1].products) = Len(zine[1].first) => WithinCaps(zine[1].products)

\* The first pass deferred an item at a cap and still reached target, so the
\* relaxation added nothing and a category sits exactly at its cap.
C18_Witness ==
    /\ Selected
    /\ zine[1].deferred # <<>>
    /\ ~zine[1].relaxed
    /\ Len(zine[1].products) = Len(zine[1].first)
    /\ Len(zine[1].products) >= 2
    /\ \E c \in Categories : CategoryCount(zine[1].products, c) = CategoryCap

\* The base score the call computed, multiplied by each bonus multiplier
\* that applies, in fixed-point units.
BonusAdjustedBase ==
    LET m1 == IF product.brand \in user.followed_brands
              THEN config.weights.brand_affinity ELSE 100
        m2 == IF product.is_new THEN config.weights.newness ELSE 100
    IN  (((result[1].base * m1) \div 100) * m2) \div 100

\* C19: when rejection penalization is enabled and the item is in the supplied
\* rejection set, total = min(100, max(0, B - rejection_penalty)), B being the
\* base score multiplied by each applicable bonus multiplier: the penalty is
\* subtracted from the uncapped score, floored at 0, and only then capped.
C19_PenaltyBeforeCap ==
    (Scored /\ config.penalize_rejected /\ product.id \in rejected) =>
        result[1].total
          = Min(Pts(100), Max(0, BonusAdjustedBase - Pts(config.rejection_penalty)))

\* Base 100 with both default bonuses and penalty 30: 120.75 - 30 = 90.75.
C19_Witness ==
    /\ Scored /\ config.penalize_rejected /\ product.id \in rejected
    /\ result[1].base = Pts(100)
    /\ DOMAIN result[1].bonuses = {"brand_affinity", "newness"}
    /\ DOMAIN result[1].penalties = {"rejected"}
    /\ 4 * result[1].total = Pts(363)

\* C20 as stated: for every breakdown score_product returns, the zero
\* breakdowns of the gender filter and of the missing-data gate included,
\* quality is the label fixed by the final total and the configured
\* thresholds: "excellent" from excellent_match, "good" from good_match,
\* "fair" from min_score, else "poor".
C20_Original ==
    Scored =>
        result[1].quality =
            IF result[1].total >= Pts(config.filters.excellent_match) THEN "excellent"
            ELSE IF result[1].total >= Pts(config.filters.good_match) THEN "good"
            ELSE IF result[1].total >= Pts(config.filters.min_score) THEN "fair"
            ELSE "poor"

\* C21 as stated: the gender filter is decided before the missing-data gate,
\* so for an item whose gender is incompatible with the user's silhouette
\* score_product returns the zero breakdown with missing_data = false, also
\* when the item has no classification.
C21_Original ==
    (Scored /\ GenderMismatch) =>
        /\ result[1].total = 0
        /\ result[1] = ScoreResult(config)
        /\ ~result[1].missing_data

\* The item's vibes, and the first of them, in list order, that is in the
\* compatibility set keyed by the user's vibe.
ProductVibes == Get(TagsOf(product), "vibes", <<>>)
FirstCompatibleVibe ==
    ProductVibes[CHOOSE i \in DOMAIN ProductVibes :
                    /\ ProductVibes[i] \in VibeCompatible(user.vibe)
                    /\ \A j \in 1..(i - 1) : ProductVibes[j] \notin VibeCompatible(user.vibe)]

\* C22 as stated: when the user's vibe is not in the item's vibe list but
\* several item vibes are compatible with it, the matched_vibe reported is
\* the compatible vibe that occurs first in the item's list.
C22_Original ==
    (Scored /\ result[1].partial_vibe) => result[1].matched_vibe = FirstCompatibleVibe

\* ------------------------------------------------------------------------
\* Properties of the relaxation pass (checked under CurateSpec)
\* ------------------------------------------------------------------------

\* A direct call of _apply_diversity_selection returned.
SelectedDirectly == zine # <<>> /\ zine[1].op = "_apply_diversity_selection"

\* The items the relaxation appended to the first pass's selection.
Filled == SubSeq(zine[1].products, Len(zine[1].first) + 1, Len(zine[1].products))

\* rp comes no later than other in the fill order: fewer items of its
\* category in the first pass's selection, or as many and a score no lower.
FillsNoLater(rp, other) ==
    LET n == CategoryCount(zine[1].first, GetCategory(rp))
        m == CategoryCount(zine[1].first, GetCategory(other))
    IN  n < m \/ (n = m /\ Score(rp) >= Score(other))

\* C23: when the first pass admits fewer than target items, the open slots
\* are filled from the deferred items in order of ascending category count
\* as it stood at the end of the first pass, then descending score, with no
\* regard to the category cap or the brand cap.
C23_RelaxationOrder ==
    (SelectedDirectly /\ Len(zine[1].first) < max_products) =>
        /\ SubSeq(zine[1].products, 1, Len(zine[1].first)) = zine[1].first
        /\ Len(Filled) = Min(max_products - Len(zine[1].first), Len(zine[1].deferred))
        /\ Range(Filled) \subseteq Range(zine[1].deferred)
        /\ \A i, j \in DOMAIN Filled : i < j => FillsNoLater(Filled[i], Filled[j])
        /\ \A rp \in Range(zine[1].deferred) \ Range(Filled) :
               \A i \in DOMAIN Filled : FillsNoLater(Filled[i], rp)

\* The fill took two items of the category the first pass had not selected,
\* past its cap, and left a deferred item with a higher score behind.
C23_Witness ==
    /\ SelectedDirectly
    /\ zine[1].relaxed
    /\ Len(Filled) = 2
    /\ GetCategory(Filled[1]) = GetCategory(Filled[2])
    /\ CategoryCount(zine[1].first, GetCategory(Filled[1])) = 0
    /\ CategoryCount(zine[1].products, GetCategory(Filled[1])) > CategoryCap
    /\ \E rp \in Range(zine[1].deferred) \ Range(Filled) : Score(rp) > Score(Filled[1])

\* ------------------------------------------------------------------------
\* Properties of the arrangement (checked under ArrangeSpec)
\* ------------------------------------------------------------------------

Arranged == zine # <<>> /\ zine[1].op = "_arrange_for_visual_flow"

\* The categories of a list, position by position.
CategoriesOf(ranked) == [i \in DOMAIN ranked |-> GetCategory(ranked[i])]

\* Positions k such that the items at k and k + 1 share a category.
AdjacentSame(ranked) ==
    {k \in 1..(Len(ranked) - 1) : GetCategory(ranked[k]) = GetCategory(ranked[k + 1])}

\* C24: _arrange_for_visual_flow returns a reordering of exactly its input
\* items, none lost and none duplicated, that keeps the input's first item
\* first; for inputs of three or more items two adjacent items of the result
\* share a category only if every item placed from the second of them onward
\* has that same category.
C24_Arrangement ==
    Arranged =>
        LET products == zine[1].products
        IN  /\ Len(products) = Len(pool)
            /\ Range(products) = Range(pool)
            /\ Cardinality(Ids(products)) = Len(pool)
            /\ pool # <<>> => products[1] = pool[1]
            /\ Len(pool) >= 3 =>
                  \A k \in AdjacentSame(products) :
                      \A m \in (k + 1)..Len(products) :
                          GetCategory(products[m]) = GetCategory(products[k + 1])

\* The arrangement moved items: it alternated as long as it could and ended
\* with a run of the one category that was left.
C24_Witness ==
    /\ Arranged
    /\ Len(pool) = 5
    /\ zine[1].products # pool
    /\ AdjacentSame(pool) = {1, 2, 3}
    /\ AdjacentSame(zine[1].products) = {3, 4}

\* The items at the positions rest of the input can be placed after an item
\* of category last with no two adjacent items of one category.
RECURSIVE CanAlternate(_, _)
CanAlternate(last, rest) ==
    \/ rest = {}
    \/ \E i \in rest :
          /\ GetCategory(pool[i]) # last
          /\ CanAlternate(GetCategory(pool[i]), rest \ {i})

\* Some ordering of the input keeps its first item first and has no two
\* adjacent items of one category.
AlternationExists ==
    pool = <<>> \/ CanAlternate(GetCategory(pool[1]), 2..Len(pool))

Explained == Responded /\ response[1].op = "explain_match" /\ response[1].status = "ok"

\* The entries of a list of reasons or misses that speak of a dimension.
LinesOf(lines, dimension) == {i \in DOMAIN lines : lines[i].dimension = dimension}

\* The user's preference, the points scored, the value matched and the weight
\* in a dimension, read from the inputs and from the breakdown.
Preference(d) ==
    CASE d = "aesthetic" -> user.aesthetic
      [] d = "palette" -> user.palette
      [] d = "vibe" -> user.vibe
PointsIn(d) ==
    CASE d = "aesthetic" -> response[1].breakdown.aesthetic_points
      [] d = "palette" -> response[1].breakdown.palette_points
      [] d = "vibe" -> response[1].breakdown.vibe_points
MatchedIn(d) ==
    CASE d = "aesthetic" -> response[1].breakdown.matched_aesthetic
      [] d = "palette" -> response[1].breakdown.matched_palette
      [] d = "vibe" -> response[1].breakdown.matched_vibe
WeightOf(d) ==
    CASE d = "aesthetic" -> config.weights.aesthetic
      [] d = "palette" -> config.weights.palette
      [] d = "vibe" -> config.weights.vibe

\* C26: for each dimension with positive weight in which the user declared a
\* preference explain_match emits exactly one entry: a reason, exact or
\* compatibility-based and naming the matched value, when the dimension
\* scored more than 0 points, and a miss when it scored 0; a dimension
\* without a declared preference yields neither.
C26_OneEntryPerDimension ==
    Explained =>
        \A d \in {"aesthetic", "palette", "vibe"} :
            LET reasons == LinesOf(response[1].reasons, d)
                misses == LinesOf(response[1].misses, d)
            IN  /\ WeightOf(d) > 0
                /\ ~Truthy(Preference(d)) => reasons = {} /\ misses = {}
                /\ (Truthy(Preference(d)) /\ PointsIn(d) > 0) =>
                      /\ misses = {}
                      /\ Cardinality(reasons) = 1
                      /\ \A i \in reasons :
                            /\ response[1].reasons[i].value = MatchedIn(d)
                            /\ response[1].reasons[i].kind =
                                  IF PointsIn(d) = Pts(WeightOf(d))
                                  THEN "match" ELSE "compatible"
                /\ (Truthy(Preference(d)) /\ PointsIn(d) = 0) =>
                      reasons = {} /\ Cardinality(misses) = 1

\* All three preferences declared: the aesthetic matches exactly, the palette
\* is compatible, the vibe misses.
C26_Witness ==
    /\ Explained
    /\ Truthy(user.aesthetic) /\ Truthy(user.palette) /\ Truthy(user.vibe)
    /\ Len(response[1].reasons) = 2
    /\ response[1].reasons[1] = Line("aesthetic", "match", user.aesthetic)
    /\ response[1].reasons[2].kind = "compatible"
    /\ response[1].reasons[2].dimension = "palette"
    /\ Len(response[1].misses) = 1
    /\ response[1].misses[1].dimension = "vibe"

\* ------------------------------------------------------------------------
\* The size of the collection (checked under CurateSpec)
\* ------------------------------------------------------------------------

\* C27: the collection curate_zine returns never holds more than target
\* items (target = max_products when given, otherwise
\* config.curation.max_products), the pool returned by the small-pool guard
\* included.
C27_Original ==
    Curated => Len(zine[1].products) <= Target(max_products, config)

\* ------------------------------------------------------------------------
\* The explanation and the ranking of one item (checked under Spec)
\* ------------------------------------------------------------------------

ExplainedByApi ==
    /\ Responded /\ response[1].op = "explain_product_match"
    /\ response[1].status = "ok"

\* The row the explanation is about.
ExplainedProduct ==
    catalog[CHOOSE i \in DOMAIN catalog : catalog[i].id = response[1].args.product_id]

\* What get_matched_products and _build_pool compute for the explained user
\* and item on the same tables and configuration: score_product with the
\* rejection set loaded from the interaction log.
RankerScoreResult ==
    LET user_id == response[1].args.user_id
    IN  ScoreOf(users[user_id], ExplainedProduct, config,
                IF config.penalize_rejected /\ user_id # 0
                THEN LoadRejectedIds(interactions, user_id) ELSE {})

\* C28 as stated: for every stored user and item, the score and the quality
\* explain_match returns are the score and the quality the ranker and the
\* curator compute for that user and item on the same data and configuration,
\* items the user has rejected included.
C28_Original ==
    ExplainedByApi =>
        /\ response[1].body.score = Round1(RankerScoreResult.total)
        /\ response[1].body.quality = RankerScoreResult.quality

\* ------------------------------------------------------------------------
\* The rejection set over the interaction history (checked under HistorySpec)
\* ------------------------------------------------------------------------

\* The stored user has logged a swipe_left on the product.
SwipedLeft(user_id, product_id) ==
    \E i \in DOMAIN interactions :
        interactions[i] = [user_id |-> user_id, product_id |-> product_id,
                           action |-> "swipe_left"]

\* A matching call for the user has returned.
MatchedFor(user_id) ==
    /\ Responded /\ response[1].op \in {"get_matched_products", "curate_zine"}
    /\ response[1].status = "ok"
    /\ response[1].args.user_id = user_id

\* The returned call scored the product as a rejected one: where it is
\* returned its breakdown carries the rejection penalty, and where it is not
\* it is because the penalised total is below min_score.
ScoredAsRejected(user_id, product_id) ==
    LET returned == {i \in DOMAIN response[1].products :
                        response[1].products[i].product.id = product_id}
        row == catalog[CHOOSE i \in DOMAIN catalog : catalog[i].id = product_id]
    IN  /\ \A i \in returned :
              "rejected" \in DOMAIN response[1].products[i].score_result.penalties
        /\ returned = {} =>
              ScoreOf(users[user_id], row, config, {product_id}).total
                  < Pts(config.filters.min_score)

\* The log is extended at its end and the user's rejection set does not lose
\* a member.
HistoryGrows(user_id) ==
    /\ Len(interactions') >= Len(interactions)
    /\ \A i \in DOMAIN interactions : interactions'[i] = interactions[i]
    /\ LoadRejectedIds(interactions, user_id) \subseteq LoadRejectedIds(interactions', user_id)

\* C29: once the user has logged a swipe_left on an item, every later
\* get_matched_products and curate_zine call for that user scores the item
\* with the rejection set holding it, whatever the user logs on the item
\* afterwards; the log is only appended to, so the rejection set only grows.
C29_RejectionPersists ==
    /\ \A product_id \in {101, 102} :
          [](SwipedLeft(1, product_id) =>
                [](MatchedFor(1) => ScoredAsRejected(1, product_id)))
    /\ [][HistoryGrows(1)]_vars

\* C29 witness: the user swiped left on the first row and then right on it,
\* and a later get_matched_products call returned the row with the penalty.
C29_Witness ==
    /\ interactions = <<[user_id |-> 1, product_id |-> 101, action |-> "swipe_left"],
                        [user_id |-> 1, product_id |-> 101, action |-> "swipe_right"]>>
    /\ MatchedFor(1) /\ response[1].op = "get_matched_products"
    /\ \E i \in DOMAIN response[1].products :
          /\ response[1].products[i].product.id = 101
          /\ "rejected" \in DOMAIN response[1].products[i].score_result.penalties

\* ------------------------------------------------------------------------
\* The lifecycle of a delivery record (checked under DeliverySpec)
\* ------------------------------------------------------------------------

\* The records this run of the job created, in a table.
CreatedIn(table) == {i \in DOMAIN table : i >= job.first}

\* pending -> generating -> delivered | failed
Lifecycle ==
    {<<"pending", "generating">>, <<"generating", "delivered">>,
     <<"generating", "failed">>}

\* A step changes the status of a record the run created only along the
\* lifecycle, and a record is created pending.
StatusSteps ==
    /\ \A i \in CreatedIn(deliveries) \cap DOMAIN deliveries' :
          \/ deliveries'[i].status = deliveries[i].status
          \/ <<deliveries[i].status, deliveries'[i].status>> \in Lifecycle
    /\ \A i \in DOMAIN deliveries' \ DOMAIN deliveries :
          deliveries'[i].status = "pending"

\* A failure of curating or sending is followed by the record of the user
\* committed as failed and by the loop going on with the remaining due users.
FailureSteps ==
    job.pc = "except" =>
        /\ Current \in DOMAIN deliveries'
        /\ deliveries'[Current].status = "failed"
        /\ deliveries'[Current].user_id = Head(job.due)
        /\ committed' = deliveries'
        /\ job'.pc = "loop" /\ job'.due = Tail(job.due)

\* No record the run created is committed as pending or generating.
NoneLeftOpen ==
    \A i \in CreatedIn(committed) : committed[i].status \in {"delivered", "failed"}

\* C30: every record run_delivery_job creates changes status only along
\* pending -> generating -> delivered | failed; when the job finishes no
\* record it created is persisted as pending or generating; a failure while
\* curating or sending for one due user marks that user's record failed and
\* the job goes on to the remaining due users.
C30_DeliveryLifecycle ==
    /\ [][StatusSteps]_vars
    /\ [](job.pc = "done" => (NoneLeftOpen /\ deliveries = committed))
    /\ [][FailureSteps]_vars

\* C30 witness: the job has finished; sending to the first user failed and
\* the record is committed as failed, and the second user's record, created
\* after it, is committed as delivered with its products.
C30_Witness ==
    /\ job.pc = "done"
    /\ Len(committed) = job.first + 1
    /\ committed[job.first].status = "failed"
    /\ committed[job.first].user_id = 1
    /\ committed[job.first].product_ids # <<>>
    /\ committed[job.first + 1].status = "delivered"
    /\ committed[job.first + 1].user_id = 2
    /\ committed[job.first + 1].product_ids # <<>>

====
